---- MODULE Spec2Model ----
(***************************************************************************)
(* Session manager of claude-sessions (src/src/manager.rs) together with   *)
(* the persistence store (src/src/persistence.rs), the session record      *)
(* (src/src/session.rs) and the input path of the process supervisor       *)
(* (src/src/pty.rs).                                                       *)
(*                                                                         *)
(* The manager's methods are modelled at the granularity of their critical *)
(* sections: every block that takes a registry lock, mutates and releases  *)
(* it is one atomic step of the calling task.  Code that touches no shared *)
(* state (validation, Session::new, the spawn) is folded into the first    *)
(* step of the method.                                                     *)
(***************************************************************************)
EXTENDS Integers, Sequences, FiniteSets, TLC

\* ------------------------------------------------------------------ bounds
NumTasks == 2      \* callers sharing the manager
NumPre == 1        \* ids that may already be recorded in the state file
MaxUuid == 3       \* ids handed out by Uuid::new_v4, those on disk included
MaxInputs == 1     \* send_input calls that reach a terminal

Tasks == 1..NumTasks
PreIds == 1..NumPre
Uuids == 1..MaxUuid
Dirs == {"A", "B", "missing"}
ExistingDirs == {"A", "B"}
Pids == {101, 102}
None == {}                         \* Option::None; Some(x) is {x}
Some(x) == {x}
Texts == {<<"x">>, <<"x", "\n">>}
EmptyMap == [k \in {} |-> TRUE]

VARIABLES
    sessions,        \* SessionManager.sessions : HashMap<Uuid, Session>
    processes,       \* SessionManager.processes : HashMap<Uuid, SessionProcess>
    disk,            \* ~/.claude-sessions/sessions.json
    os_alive,        \* pids for which kill(pid, 0) == 0
    next_uuid,       \* ids handed out so far by Uuid::new_v4 are < next_uuid
    pty_writes,      \* bytes written to terminal input sides, in order
    log_entries,     \* entries appended to session log files, in order
    phase,           \* "recovering" (with_recovery not finished) or "ready"
    recovery_report, \* what recover_sessions decided and printed per record
    pc,              \* position of each task inside a manager method
    op,              \* the request and locals of each task's running method
    response,        \* the value most recently returned to a caller
    started,         \* id -> directory, for ids start_session returned
    stopped,         \* ids for which stop_session returned Ok
    spawn_failed,    \* ids allocated by a start_session whose spawn failed
    socket_file,     \* ~/.claude-sessions/daemon.sock: None, or Some(d) for
                     \* the socket daemon process d bound there
    shutdown_sent,   \* the broadcast channel holds a shutdown signal
    stderr_errors,   \* the accept loop has printed an error line to stderr
    pty,             \* one session's pseudo-terminal and its child
    shutdown_rx,     \* the handle's mpsc channel to its output reader
    log_file,        \* what has been written to the session's .jsonl file
    reads            \* the non-empty reads the output reader has made

\* the daemon's own state, which no manager method touches
daemon_vars == <<socket_file, shutdown_sent, stderr_errors>>

\* one SessionProcess seen from inside, which the registry steps leave alone
pty_vars == <<pty, shutdown_rx, log_file, reads>>

vars == <<sessions, processes, disk, os_alive, next_uuid, pty_writes,
          log_entries, phase, recovery_report, pc, op, response,
          started, stopped, spawn_failed, socket_file, shutdown_sent,
          stderr_errors, pty, shutdown_rx, log_file, reads>>

\* ------------------------------------------------------------ pure helpers
Insert(m, k, v) == [x \in (DOMAIN m) \cup {k} |-> IF x = k THEN v ELSE m[x]]

\* a removal that leaves the entry in place
RemoveNothing(m, k) == m

Remove(m, k) == [x \in (DOMAIN m) \ {k} |-> m[x]]

ContainsKey(m, k) == k \in DOMAIN m

\* Uuid's Display / FromStr
UuidToString(id) == ToString(id)

ParseUuid(s) == CHOOSE id \in Uuids : UuidToString(id) = s

LogPathForSession(id) == <<"logs", UuidToString(id)>>

SessionNew(working_dir, id, now) ==
    [id |-> id, working_dir |-> working_dir, created_at |-> now,
     log_path |-> LogPathForSession(id)]

FromSession(session, pid) ==
    [id |-> session.id, working_dir |-> session.working_dir,
     created_at |-> session.created_at, log_path |-> session.log_path,
     pid |-> pid, status |-> "running"]

\* a check that lets every path through
DirExistsUnchecked(d) == TRUE

DirExists(d) == d \in ExistingDirs

\* a generator that hands out the same id again
NewV4Stuck == NumPre + 1

NewV4 == next_uuid

\* chrono::Utc::now() as Session::new reads it: a clock that has ticked once
\* for every session created so far
UtcNow == next_uuid

IsProcessAlive(pid) == pid \in os_alive

\* ------------------------------------------------------- persistence store
\* a serialisation that leaves the optional pid out
RecordToJsonNoPid(rec) ==
    [id |-> UuidToString(rec.id), working_dir |-> rec.working_dir,
     created_at |-> rec.created_at, log_path |-> rec.log_path,
     pid |-> "null", status |-> rec.status]

\* serde_json of one PersistedSession: the id as its string form, the
\* optional pid as null or a number.
RecordToJson(rec) ==
    [id |-> UuidToString(rec.id), working_dir |-> rec.working_dir,
     created_at |-> rec.created_at, log_path |-> rec.log_path,
     pid |-> IF rec.pid = None THEN "null"
             ELSE ToString(CHOOSE p \in rec.pid : TRUE),
     status |-> rec.status]

RecordFromJson(j) ==
    [id |-> ParseUuid(j.id), working_dir |-> j.working_dir,
     created_at |-> j.created_at, log_path |-> j.log_path,
     pid |-> IF j.pid = "null" THEN None
             ELSE Some(CHOOSE p \in Pids : ToString(p) = j.pid),
     status |-> j.status]

\* serde_json::to_string_pretty(&HashMap<Uuid, PersistedSession>)
ToJson(m) ==
    [s \in {UuidToString(k) : k \in DOMAIN m} |->
        RecordToJson(m[ParseUuid(s)])]

\* serde_json::from_str::<HashMap<Uuid, PersistedSession>>
FromJson(json) ==
    [k \in {ParseUuid(s) : s \in DOMAIN json} |->
        RecordFromJson(json[UuidToString(k)])]

MissingFile == [kind |-> "missing"]
CorruptFile == [kind |-> "corrupt"]
JsonFile(json) == [kind |-> "json", json |-> json]

\* a write made in place: a failure leaves a truncated file behind
WriteStateInPlace(file, m, io_ok) ==
    IF io_ok THEN JsonFile(ToJson(m)) ELSE CorruptFile

\* write_state: Ok leaves the new map at the final path, Err (serialising,
\* writing the temp file or renaming it failed) leaves the file as it was.
WriteState(file, m, io_ok) == IF io_ok THEN JsonFile(ToJson(m)) ELSE file

\* load_state: [ok, map]
LoadState(file) ==
    CASE file.kind = "missing" -> [ok |-> TRUE, map |-> EmptyMap]
      [] file.kind = "corrupt" -> [ok |-> FALSE, map |-> EmptyMap]
      [] OTHER -> [ok |-> TRUE, map |-> FromJson(file.json)]

\* -------------------------------------------------------- manager helpers
\* save_state's pid lookup: processes.get(id).and_then(|_| None)
ProcessPid(procs, id) == None

\* a snapshot of the sessions that have a process handle only
SnapshotOfHandles(sess, procs) ==
    [id \in DOMAIN sess \cap DOMAIN procs |->
        FromSession(sess[id], ProcessPid(procs, id))]

\* the map save_state builds under both registry locks
Snapshot(sess, procs) ==
    [id \in DOMAIN sess |-> FromSession(sess[id], ProcessPid(procs, id))]

\* a classification that trusts a stored "stopped"
RecoveryStatusKeepsStopped(rec) ==
    IF rec.status = "stopped" THEN "stopped"
    ELSE IF rec.pid # None
    THEN IF IsProcessAlive(CHOOSE p \in rec.pid : TRUE)
         THEN "orphaned" ELSE "crashed"
    ELSE "stale"

\* recover_sessions' classification of one persisted record
RecoveryStatus(rec) ==
    IF rec.pid # None
    THEN IF IsProcessAlive(CHOOSE p \in rec.pid : TRUE)
         THEN "orphaned" ELSE "crashed"
    ELSE "stale"

\* a rebuild that stamps the session with the time of the recovery
SessionFromPersistedRestamped(rec) ==
    [id |-> rec.id, working_dir |-> rec.working_dir,
     created_at |-> UtcNow, log_path |-> rec.log_path]

\* recover_sessions' Session rebuilt from a persisted record
SessionFromPersisted(rec) ==
    [id |-> rec.id, working_dir |-> rec.working_dir,
     created_at |-> rec.created_at, log_path |-> rec.log_path]

\* a listing that shows the status recovery computed for a session
SessionInfoOfClassified(s, procs) ==
    [id |-> UuidToString(s.id), working_dir |-> s.working_dir,
     created_at |-> s.created_at,
     status |-> IF ContainsKey(procs, s.id) THEN "running"
                ELSE IF s.id \in DOMAIN recovery_report
                THEN recovery_report[s.id].status ELSE "stale",
     log_path |-> s.log_path]

\* list_sessions: one SessionInfo per entry of the session table
SessionInfoOf(s, procs) ==
    [id |-> UuidToString(s.id), working_dir |-> s.working_dir,
     created_at |-> s.created_at,
     status |-> IF ContainsKey(procs, s.id) THEN "running" ELSE "stale",
     log_path |-> s.log_path]

ListOf(sess, procs) == [k \in DOMAIN sess |-> SessionInfoOf(sess[k], procs)]

\* send_input's newline rule
EndsWithNewline(text) == Len(text) > 0 /\ text[Len(text)] = "\n"

WithNewline(text) == IF EndsWithNewline(text) THEN text ELSE Append(text, "\n")

\* ------------------------------------------------------------ initial state
Statuses == {"running", "stopped", "crashed", "stale", "orphaned"}

\* Records an earlier daemon (or an editor) may have left in the state file
\* under key k.
StoredRecords(k, pids, statuses) ==
    [id : {k}, working_dir : {"A"}, created_at : {k},
     log_path : {LogPathForSession(k)}, pid : pids, status : statuses]

StoredMaps(pids, statuses) ==
    UNION {[K -> UNION {StoredRecords(k, pids, statuses) : k \in K}] \cap
              {m \in [K -> UNION {StoredRecords(k, pids, statuses) : k \in K}] :
                  \A k \in K : m[k].id = k} : K \in SUBSET PreIds}

StoredFiles(pids, statuses) ==
    {MissingFile, CorruptFile} \cup
    {JsonFile(ToJson(m)) : m \in StoredMaps(pids, statuses)}

\* the state files the manager's operations are explored from: what
\* save_state itself writes (pid None, status "running"), or no usable file
InitDisks == StoredFiles({None}, {"running"})

\* the state files recovery alone is explored from
RecoveryDisks == StoredFiles({None} \cup {Some(p) : p \in Pids}, Statuses)

NoOp == [kind |-> "none"]
NoResponse == [op |-> "none"]

\* no SessionProcess is looked into
NoPty == [child |-> "none"]

HandleUnseen ==
    /\ pty = NoPty
    /\ shutdown_rx = "none"
    /\ log_file = <<>>
    /\ reads = <<>>

RegistryInit(files, worlds, phases) ==
    /\ sessions = EmptyMap
    /\ processes = EmptyMap
    /\ disk \in files
    /\ os_alive \in worlds
    /\ next_uuid = NumPre + 1
    /\ pty_writes = <<>>
    /\ log_entries = <<>>
    /\ phase \in phases
    /\ recovery_report = EmptyMap
    /\ pc = [t \in Tasks |-> "idle"]
    /\ op = [t \in Tasks |-> NoOp]
    /\ response = NoResponse
    /\ started = EmptyMap
    /\ stopped = {}
    /\ spawn_failed = {}

\* a manager on its own: no daemon, no socket
InitWith(files, worlds, phases) ==
    /\ RegistryInit(files, worlds, phases)
    /\ socket_file = None
    /\ shutdown_sent = FALSE
    /\ stderr_errors = FALSE
    /\ HandleUnseen

\* SessionManager::new() leaves phase "ready"; with_recovery() has
\* recover_sessions still to run.
Init == InitWith(InitDisks, {{101}}, {"ready", "recovering"})

RecoveryInit == InitWith(RecoveryDisks, SUBSET Pids, {"recovering"})

\* ------------------------------------------------------------------ recovery
\* recover_sessions' loop over the loaded map
RecoveredSessions(persisted) ==
    [k \in DOMAIN persisted |-> SessionFromPersisted(persisted[k])]

\* per record: the pid it carried, the probe's answer, the status it had on
\* disk and the status recover_sessions computed and printed
RecoveryReport(persisted) ==
    [k \in DOMAIN persisted |->
        [pid |-> persisted[k].pid,
         alive |-> IF persisted[k].pid = None THEN FALSE
                   ELSE IsProcessAlive(CHOOSE p \in persisted[k].pid : TRUE),
         on_disk |-> persisted[k].status,
         working_dir |-> persisted[k].working_dir,
         status |-> RecoveryStatus(persisted[k])]]

\* What recover_sessions returns to with_recovery: Ok(()) or the error of
\* load_state or save_state, and whether its save reached the file.
RecoveryResult(ok, saved) == [op |-> "recover", ok |-> ok, saved |-> saved]

\* a recovery that builds a process handle for every record it loads
RecoverWithHandles ==
    /\ phase = "recovering"
    /\ phase' = "ready"
    /\ LET loaded == LoadState(disk) IN
       IF loaded.ok /\ DOMAIN loaded.map # {}
       THEN /\ sessions' = RecoveredSessions(loaded.map)
            /\ processes' = [k \in DOMAIN loaded.map |-> [session_id |-> k]]
            /\ recovery_report' = RecoveryReport(loaded.map)
            /\ \E io_ok \in BOOLEAN :
                 /\ disk' = WriteState(disk, Snapshot(sessions', processes'),
                                       io_ok)
                 /\ response' = RecoveryResult(io_ok, io_ok)
       ELSE /\ UNCHANGED <<sessions, processes, recovery_report, disk>>
            /\ response' = RecoveryResult(loaded.ok, FALSE)
    /\ UNCHANGED <<os_alive, next_uuid, pty_writes, log_entries,
                   pc, op, started, stopped, spawn_failed>>
    /\ UNCHANGED <<daemon_vars, pty_vars>>

\* a startup that gives up when recover_sessions returns an error
RecoverFailsStartup ==
    /\ phase = "recovering"
    /\ LET loaded == LoadState(disk) IN
       IF loaded.ok /\ DOMAIN loaded.map # {}
       THEN /\ sessions' = RecoveredSessions(loaded.map)
            /\ recovery_report' = RecoveryReport(loaded.map)
            /\ \E io_ok \in BOOLEAN :
                 /\ disk' = WriteState(disk, Snapshot(sessions', processes),
                                       io_ok)
                 /\ response' = RecoveryResult(io_ok, io_ok)
                 /\ phase' = IF io_ok THEN "ready" ELSE "failed"
       ELSE /\ UNCHANGED <<sessions, recovery_report, disk>>
            /\ response' = RecoveryResult(loaded.ok, FALSE)
            /\ phase' = IF loaded.ok THEN "ready" ELSE "failed"
    /\ UNCHANGED <<processes, os_alive, next_uuid, pty_writes, log_entries,
                   pc, op, started, stopped, spawn_failed>>
    /\ UNCHANGED <<daemon_vars, pty_vars>>

\* with_recovery: load_state, the classification loop, save_state.  The
\* manager is not shared yet, so the whole of it is one step.  A missing
\* file or an empty map returns Ok early; a load or save error is returned
\* to with_recovery, which reports it and keeps the manager.
Recover ==
    /\ phase = "recovering"
    /\ phase' = "ready"
    /\ LET loaded == LoadState(disk) IN
       IF loaded.ok /\ DOMAIN loaded.map # {}
       THEN /\ sessions' = RecoveredSessions(loaded.map)
            /\ recovery_report' = RecoveryReport(loaded.map)
            /\ \E io_ok \in BOOLEAN :
                 /\ disk' = WriteState(disk, Snapshot(sessions', processes),
                                       io_ok)
                 /\ response' = RecoveryResult(io_ok, io_ok)
       ELSE /\ UNCHANGED <<sessions, recovery_report, disk>>
            /\ response' = RecoveryResult(loaded.ok, FALSE)
    /\ UNCHANGED <<processes, os_alive, next_uuid, pty_writes, log_entries,
                   pc, op, started, stopped, spawn_failed>>
    /\ UNCHANGED <<daemon_vars, pty_vars>>

\* ------------------------------------------------------------------ requests
StartRequests == [kind : {"start"}, dir : Dirs]
StopRequests == [kind : {"stop"}, id : Uuids]
ListRequests == [kind : {"list"}]
SendRequests == [kind : {"send"}, id : Uuids, text : Texts]
Requests == StartRequests \cup StopRequests \cup ListRequests \cup SendRequests

\* calls already made whose method has not taken its first step
PendingStarts ==
    {u \in Tasks : pc[u] = "called" /\ op[u].kind = "start"
                      /\ DirExists(op[u].dir)}

PendingSends == {u \in Tasks : pc[u] = "called" /\ op[u].kind = "send"}

\* An id a caller can name: one handed out earlier and not still private to
\* a start_session that has yet to insert it (a caller cannot guess the id
\* Uuid::new_v4 will produce).
Addressable(id) ==
    /\ id < next_uuid
    /\ ~\E u \in Tasks : pc[u] = "start_insert_session" /\ op[u].id = id

\* The caps that keep the run finite: ids handed out, and inputs that reach
\* a terminal (a handle may still be inserted by a running start_session).
Admissible(req) ==
    /\ (req.kind = "start" /\ DirExists(req.dir))
          => next_uuid + Cardinality(PendingStarts) <= MaxUuid
    /\ req.kind \in {"stop", "send"} => Addressable(req.id)
    /\ (req.kind = "send" /\ (ContainsKey(processes, req.id)
                                \/ \E u \in Tasks : pc[u] # "idle"))
          => Len(pty_writes) + Cardinality(PendingSends) < MaxInputs

\* A caller invokes a manager method; the previous exchange is over.
Invoke(t, req) ==
    /\ phase = "ready"
    /\ pc[t] = "idle"
    /\ Admissible(req)
    /\ pc' = [pc EXCEPT ![t] = "called"]
    /\ op' = [op EXCEPT ![t] = req]
    /\ response' = NoResponse
    /\ UNCHANGED <<sessions, processes, disk, os_alive, next_uuid, pty_writes,
                   log_entries, phase, recovery_report, started, stopped,
                   spawn_failed>>
    /\ UNCHANGED <<daemon_vars, pty_vars>>

\* Sequential dispatch, as the daemon's accept loop awaits each request:
\* a method runs to its return before the next one is called.
DispatchTask == CHOOSE t \in Tasks : \A u \in Tasks : t <= u

\* a loop that hands each accepted connection to a task of its own
CallSpawned(t, req) == Invoke(t, req)

Call(t, req) ==
    /\ t = DispatchTask
    /\ Invoke(t, req)

\* Callers sharing the manager concurrently, as its Arc<Mutex<..>> fields
\* allow: critical sections of different tasks interleave.
ConcCall(t, req) == Invoke(t, req)

\* The method returns `resp` to its caller.
Return(t, resp) ==
    /\ pc' = [pc EXCEPT ![t] = "idle"]
    /\ op' = [op EXCEPT ![t] = NoOp]
    /\ response' = resp

Goto(t, label, locals) ==
    /\ pc' = [pc EXCEPT ![t] = label]
    /\ op' = [op EXCEPT ![t] = locals]
    /\ UNCHANGED response

\* ------------------------------------------------------------ start_session
\* the directory check fails: bail before anything is created
StartRejectDir(t) ==
    /\ pc[t] = "called" /\ op[t].kind = "start"
    /\ ~DirExists(op[t].dir)
    /\ Return(t, [op |-> "start", dir |-> op[t].dir, ok |-> FALSE,
                  error |-> "dir_not_exist"])
    /\ UNCHANGED <<sessions, processes, disk, os_alive, next_uuid, pty_writes,
                   log_entries, phase, recovery_report, started, stopped,
                   spawn_failed>>
    /\ UNCHANGED <<daemon_vars, pty_vars>>

\* a start that registers the session before the spawn is known to succeed
StartSpawnFailRegistered(t, id) ==
    /\ Return(t, [op |-> "start", dir |-> op[t].dir, ok |-> FALSE,
                  error |-> "spawn_failed"])
    /\ spawn_failed' = spawn_failed \cup {id}
    /\ sessions' = Insert(sessions, id, SessionNew(op[t].dir, id, UtcNow))
    /\ UNCHANGED <<processes, disk>>

\* Session::new, then spawn_claude_pty or SessionProcess::new fails: `?`
\* returns the error before either table is touched
StartSpawnFail(t, id) ==
    /\ Return(t, [op |-> "start", dir |-> op[t].dir, ok |-> FALSE,
                  error |-> "spawn_failed"])
    /\ spawn_failed' = spawn_failed \cup {id}
    /\ UNCHANGED <<sessions, processes, disk>>

\* Session::new, spawn_claude_pty and SessionProcess::new succeed
StartSpawnOk(t, id, now) ==
    /\ Goto(t, "start_insert_session",
            [kind |-> "start", dir |-> op[t].dir, id |-> id,
             session |-> SessionNew(op[t].dir, id, now)])
    /\ UNCHANGED <<sessions, processes, disk, spawn_failed>>

StartSpawn(t) ==
    /\ pc[t] = "called" /\ op[t].kind = "start"
    /\ DirExists(op[t].dir)
    /\ next_uuid' = next_uuid + 1
    /\ \E spawned \in BOOLEAN :
         IF spawned THEN StartSpawnOk(t, NewV4, UtcNow)
                    ELSE StartSpawnFail(t, NewV4)
    /\ UNCHANGED <<os_alive, pty_writes, log_entries, phase, recovery_report,
                   started, stopped>>
    /\ UNCHANGED <<daemon_vars, pty_vars>>

\* { sessions.lock(); sessions.insert(session_id, session) }
StartInsertSession(t) ==
    /\ pc[t] = "start_insert_session"
    /\ sessions' = Insert(sessions, op[t].id, op[t].session)
    /\ Goto(t, "start_insert_process", op[t])
    /\ UNCHANGED <<processes, disk, os_alive, next_uuid, pty_writes,
                   log_entries, phase, recovery_report, started, stopped,
                   spawn_failed>>
    /\ UNCHANGED <<daemon_vars, pty_vars>>

\* { processes.lock(); processes.insert(session_id, process) }
StartInsertProcess(t) ==
    /\ pc[t] = "start_insert_process"
    /\ processes' = Insert(processes, op[t].id, [session_id |-> op[t].id])
    /\ Goto(t, "save_snapshot", op[t])
    /\ UNCHANGED <<sessions, disk, os_alive, next_uuid, pty_writes,
                   log_entries, phase, recovery_report, started, stopped,
                   spawn_failed>>
    /\ UNCHANGED <<daemon_vars, pty_vars>>

\* ------------------------------------------------------------- stop_session
\* a stop that treats an unknown id as already stopped and saves
StopNotFoundIgnored(t) ==
    /\ pc[t] = "called" /\ op[t].kind = "stop"
    /\ ~ContainsKey(sessions, op[t].id)
    /\ Goto(t, "stop_remove_process", op[t])
    /\ UNCHANGED <<sessions, processes, disk, os_alive, next_uuid, pty_writes,
                   log_entries, phase, recovery_report, started, stopped,
                   spawn_failed>>
    /\ UNCHANGED <<daemon_vars, pty_vars>>

\* first critical section, id absent: bail
StopNotFound(t) ==
    /\ pc[t] = "called" /\ op[t].kind = "stop"
    /\ ~ContainsKey(sessions, op[t].id)
    /\ Return(t, [op |-> "stop", id |-> op[t].id, ok |-> FALSE,
                  error |-> "session_not_found"])
    /\ UNCHANGED <<sessions, processes, disk, os_alive, next_uuid, pty_writes,
                   log_entries, phase, recovery_report, started, stopped,
                   spawn_failed>>
    /\ UNCHANGED <<daemon_vars, pty_vars>>

\* first critical section, id present: sessions.remove
StopRemoveSession(t) ==
    /\ pc[t] = "called" /\ op[t].kind = "stop"
    /\ ContainsKey(sessions, op[t].id)
    /\ sessions' = Remove(sessions, op[t].id)
    /\ Goto(t, "stop_remove_process", op[t])
    /\ UNCHANGED <<processes, disk, os_alive, next_uuid, pty_writes,
                   log_entries, phase, recovery_report, started, stopped,
                   spawn_failed>>
    /\ UNCHANGED <<daemon_vars, pty_vars>>

\* a stop that forgets the handle
StopKeepProcess(t) ==
    /\ pc[t] = "stop_remove_process"
    /\ Goto(t, "save_snapshot", op[t])
    /\ UNCHANGED <<sessions, processes, disk, os_alive, next_uuid, pty_writes,
                   log_entries, phase, recovery_report, started, stopped,
                   spawn_failed>>
    /\ UNCHANGED <<daemon_vars, pty_vars>>

\* second critical section: processes.remove drops the handle
StopRemoveProcess(t) ==
    /\ pc[t] = "stop_remove_process"
    /\ processes' = Remove(processes, op[t].id)
    /\ Goto(t, "save_snapshot", op[t])
    /\ UNCHANGED <<sessions, disk, os_alive, next_uuid, pty_writes,
                   log_entries, phase, recovery_report, started, stopped,
                   spawn_failed>>
    /\ UNCHANGED <<daemon_vars, pty_vars>>

\* --------------------------------------------------------------- save_state
\* the snapshot taken while holding the sessions and processes locks
SaveSnapshot(t) ==
    /\ pc[t] = "save_snapshot"
    /\ Goto(t, "save_write",
            IF op[t].kind = "start"
            THEN [kind |-> "start", dir |-> op[t].dir, id |-> op[t].id,
                  snapshot |-> Snapshot(sessions, processes)]
            ELSE [kind |-> "stop", id |-> op[t].id,
                  snapshot |-> Snapshot(sessions, processes)])
    /\ UNCHANGED <<sessions, processes, disk, os_alive, next_uuid, pty_writes,
                   log_entries, phase, recovery_report, started, stopped,
                   spawn_failed>>
    /\ UNCHANGED <<daemon_vars, pty_vars>>

\* what start_session / stop_session return after save_state; a failed save
\* is only reported on stderr (`warned`)
Completed(o, io_ok) ==
    IF o.kind = "start"
    THEN [op |-> "start", dir |-> o.dir, ok |-> TRUE, id |-> o.id,
          warned |-> ~io_ok]
    ELSE [op |-> "stop", id |-> o.id, ok |-> TRUE, warned |-> ~io_ok]

\* write_state under the persistence lock, then the method's tail
SaveWrite(t) ==
    /\ pc[t] = "save_write"
    /\ \E io_ok \in BOOLEAN :
         /\ disk' = WriteState(disk, op[t].snapshot, io_ok)
         /\ Return(t, Completed(op[t], io_ok))
    /\ started' = IF op[t].kind = "start"
                  THEN Insert(started, op[t].id, op[t].dir) ELSE started
    /\ stopped' = IF op[t].kind = "stop" THEN stopped \cup {op[t].id}
                  ELSE stopped
    /\ UNCHANGED <<sessions, processes, os_alive, next_uuid, pty_writes,
                   log_entries, phase, recovery_report, spawn_failed>>
    /\ UNCHANGED <<daemon_vars, pty_vars>>

\* ------------------------------------------------------------ list_sessions
ListSessions(t) ==
    /\ pc[t] = "called" /\ op[t].kind = "list"
    /\ Return(t, [op |-> "list", list |-> ListOf(sessions, processes)])
    /\ UNCHANGED <<sessions, processes, disk, os_alive, next_uuid, pty_writes,
                   log_entries, phase, recovery_report, started, stopped,
                   spawn_failed>>
    /\ UNCHANGED <<daemon_vars, pty_vars>>

\* --------------------------------------------------------------- send_input
\* a send that logs the input before it looks for the handle
SendInputNoHandleLogged(t) ==
    /\ pc[t] = "called" /\ op[t].kind = "send"
    /\ ~ContainsKey(processes, op[t].id)
    /\ log_entries' = Append(log_entries,
                             [session_id |-> op[t].id, direction |-> "input",
                              data |-> op[t].text])
    /\ Return(t, [op |-> "send", id |-> op[t].id, ok |-> FALSE,
                  error |-> "no_pty_handle"])
    /\ UNCHANGED <<sessions, processes, disk, os_alive, next_uuid, pty_writes,
                   phase, recovery_report, started, stopped, spawn_failed>>
    /\ UNCHANGED <<daemon_vars, pty_vars>>

\* processes.get(id) is None
SendInputNoHandle(t) ==
    /\ pc[t] = "called" /\ op[t].kind = "send"
    /\ ~ContainsKey(processes, op[t].id)
    /\ Return(t, [op |-> "send", id |-> op[t].id, ok |-> FALSE,
                  error |-> "no_pty_handle"])
    /\ UNCHANGED <<sessions, processes, disk, os_alive, next_uuid, pty_writes,
                   log_entries, phase, recovery_report, started, stopped,
                   spawn_failed>>
    /\ UNCHANGED <<daemon_vars, pty_vars>>

\* SessionProcess::write_input: the terminal write, then the log entry.
\* outcome: "pty_failed" (no writer, or write/flush failed), "log_failed"
\* (written, but the logger could not be opened or appended), "ok".
WriteInput(process, data, outcome) ==
    /\ pty_writes' = IF outcome = "pty_failed" THEN pty_writes
                     ELSE Append(pty_writes,
                                 [session_id |-> process.session_id,
                                  data |-> data])
    /\ log_entries' = IF outcome = "ok"
                      THEN Append(log_entries,
                                  [session_id |-> process.session_id,
                                   direction |-> "input", data |-> data])
                      ELSE log_entries

\* processes.get(id) is Some(process)
SendInputWrite(t) ==
    /\ pc[t] = "called" /\ op[t].kind = "send"
    /\ ContainsKey(processes, op[t].id)
    /\ \E outcome \in {"pty_failed", "log_failed", "ok"} :
         /\ WriteInput(processes[op[t].id], WithNewline(op[t].text), outcome)
         /\ Return(t, IF outcome = "ok"
                      THEN [op |-> "send", id |-> op[t].id, ok |-> TRUE]
                      ELSE [op |-> "send", id |-> op[t].id, ok |-> FALSE,
                            error |-> "pty_write_failed"])
    /\ UNCHANGED <<sessions, processes, disk, os_alive, next_uuid, phase,
                   recovery_report, started, stopped, spawn_failed>>
    /\ UNCHANGED <<daemon_vars, pty_vars>>

\* ------------------------------------------------------------ specification
Method(t) ==
    \/ StartRejectDir(t)
    \/ StartSpawn(t)
    \/ StartInsertSession(t)
    \/ StartInsertProcess(t)
    \/ StopNotFound(t)
    \/ StopRemoveSession(t)
    \/ StopRemoveProcess(t)
    \/ SaveSnapshot(t)
    \/ SaveWrite(t)
    \/ ListSessions(t)
    \/ SendInputNoHandle(t)
    \/ SendInputWrite(t)

Next ==
    \/ Recover
    \/ \E t \in Tasks, req \in Requests : Call(t, req)
    \/ \E t \in Tasks : Method(t)

Spec == Init /\ [][Next]_vars

\* the calls explored concurrently
ConcRequests ==
    [kind : {"start"}, dir : {"A", "missing"}] \cup StopRequests
    \cup ListRequests \cup [kind : {"send"}, id : Uuids, text : {<<"x">>}]

ConcNext ==
    \/ Recover
    \/ \E t \in Tasks, req \in ConcRequests : ConcCall(t, req)
    \/ \E t \in Tasks : Method(t)

\* a manager built by new() beside an empty state directory, or by
\* with_recovery() from a file holding one record
ConcInit ==
    \/ InitWith({MissingFile}, {{101}}, {"ready"})
    \/ InitWith(StoredFiles({None}, {"running"}) \ {MissingFile, CorruptFile},
                {{101}}, {"recovering"})

ConcSpec == ConcInit /\ [][ConcNext]_vars

\* with_recovery alone, from every state file and every liveness answer
RecoveryNext == Recover

RecoverySpec == RecoveryInit /\ [][RecoveryNext]_vars

\* ------------------------------------------------------------------- daemon
\* The requests handle_request dispatches to the manager or answers itself.
PingRequests == [kind : {"ping"}]

AttachRequests == [kind : {"attach"}, id : Uuids]
ShutdownRequests == [kind : {"shutdown"}]

\* the variants of ipc::Request a connection may carry
DaemonRequests ==
    StartRequests \cup StopRequests \cup ListRequests \cup PingRequests
    \cup [kind : {"send"}, id : Uuids, text : {<<"x">>}]
    \cup AttachRequests \cup ShutdownRequests

\* what the manager holds, which the daemon's own steps leave alone
ManagerUnchanged ==
    UNCHANGED <<sessions, processes, disk, os_alive, next_uuid, pty_writes,
                log_entries, recovery_report, started, stopped, spawn_failed,
                pty, shutdown_rx, log_file, reads>>

\* a ping that also saves the session table
PingSaves(t) ==
    /\ pc[t] = "called" /\ op[t].kind = "ping"
    /\ Return(t, [op |-> "ping", pong |-> TRUE])
    /\ disk' = WriteState(disk, Snapshot(sessions, processes), TRUE)
    /\ UNCHANGED <<sessions, processes, os_alive, next_uuid, pty_writes,
                   log_entries, phase, recovery_report, started, stopped,
                   spawn_failed>>
    /\ UNCHANGED <<daemon_vars, pty_vars>>

\* Request::Ping => Response::Pong
Ping(t) ==
    /\ pc[t] = "called" /\ op[t].kind = "ping"
    /\ Return(t, [op |-> "ping", pong |-> TRUE])
    /\ UNCHANGED <<sessions, processes, disk, os_alive, next_uuid, pty_writes,
                   log_entries, phase, recovery_report, started, stopped,
                   spawn_failed>>
    /\ UNCHANGED <<daemon_vars, pty_vars>>

\* Request::SendInput: handle_request's match has no arm for this variant
\* and no catch-all, so nothing in the daemon calls manager.send_input; the
\* request is left unhandled.
HandleSendInput(t) ==
    /\ pc[t] = "called" /\ op[t].kind = "send"
    /\ Return(t, [op |-> "unhandled", kind |-> "send", id |-> op[t].id])
    /\ ManagerUnchanged
    /\ UNCHANGED <<phase, socket_file, shutdown_sent, stderr_errors>>

\* Request::AttachSession => Error "Attach not implemented yet"
HandleAttach(t) ==
    /\ pc[t] = "called" /\ op[t].kind = "attach"
    /\ Return(t, [op |-> "attach", id |-> op[t].id, ok |-> FALSE,
                  error |-> "not_implemented"])
    /\ ManagerUnchanged
    /\ UNCHANGED <<phase, socket_file, shutdown_sent, stderr_errors>>

\* a Shutdown arm that answers Ok without signalling the loop
HandleShutdownUnsignalled(t) ==
    /\ pc[t] = "called" /\ op[t].kind = "shutdown"
    /\ Return(t, [op |-> "shutdown", ok |-> TRUE])
    /\ ManagerUnchanged
    /\ UNCHANGED <<phase, socket_file, shutdown_sent, stderr_errors>>

\* Request::Shutdown => shutdown_tx.send(()), Response::Ok
HandleShutdown(t) ==
    /\ pc[t] = "called" /\ op[t].kind = "shutdown"
    /\ shutdown_sent' = TRUE
    /\ UNCHANGED stderr_errors
    /\ Return(t, [op |-> "shutdown", ok |-> TRUE])
    /\ ManagerUnchanged
    /\ UNCHANGED <<phase, socket_file>>

\* the accept loop is at its select!, no connection being handled
AtSelect ==
    /\ phase = "ready"
    /\ \A t \in Tasks : pc[t] = "idle"

\* a connection whose line does not decode that takes the daemon down
ConnectionMalformedFatal ==
    /\ AtSelect
    /\ response' = [op |-> "connection_error", cause |-> "parse",
                    written |-> FALSE]
    /\ phase' = "stopped"
    /\ ManagerUnchanged
    /\ stderr_errors' = TRUE
    /\ UNCHANGED <<pc, op, socket_file, shutdown_sent>>

\* handle_connection: the line does not decode as a Request; `?` returns
\* the error before anything is written, run logs "Connection error"
ConnectionMalformed ==
    /\ AtSelect
    /\ response' = [op |-> "connection_error", cause |-> "parse",
                    written |-> FALSE]
    /\ ManagerUnchanged
    /\ stderr_errors' = TRUE
    /\ UNCHANGED <<pc, op, phase, socket_file, shutdown_sent>>

\* handle_connection: read_line fails
ConnectionIoError ==
    /\ AtSelect
    /\ response' = [op |-> "connection_error", cause |-> "io",
                    written |-> FALSE]
    /\ ManagerUnchanged
    /\ stderr_errors' = TRUE
    /\ UNCHANGED <<pc, op, phase, socket_file, shutdown_sent>>

\* listener.accept() returns Err: logged, the loop goes on
AcceptFailed ==
    /\ AtSelect
    /\ response' = [op |-> "accept_failed"]
    /\ ManagerUnchanged
    /\ stderr_errors' = TRUE
    /\ UNCHANGED <<pc, op, phase, socket_file, shutdown_sent>>

\* select! takes the shutdown branch: break, remove the socket file, return
ObserveShutdown ==
    /\ AtSelect
    /\ shutdown_sent
    /\ phase' = "stopped"
    /\ socket_file' = None
    /\ shutdown_sent' = FALSE
    /\ UNCHANGED stderr_errors
    /\ response' = [op |-> "daemon_stopped"]
    /\ ManagerUnchanged
    /\ UNCHANGED <<pc, op>>

\* the arms of handle_request's match
DaemonMethod(t) ==
    \/ StartRejectDir(t)
    \/ StartSpawn(t)
    \/ StartInsertSession(t)
    \/ StartInsertProcess(t)
    \/ StopNotFound(t)
    \/ StopRemoveSession(t)
    \/ StopRemoveProcess(t)
    \/ SaveSnapshot(t)
    \/ SaveWrite(t)
    \/ ListSessions(t)
    \/ Ping(t)
    \/ HandleSendInput(t)
    \/ HandleAttach(t)
    \/ HandleShutdown(t)

\* Daemon::new builds its manager with SessionManager::new(): the tables
\* are empty and recover_sessions is not run, whatever the state file holds.
\* run has bound the socket and stands at the top of its accept loop.
DaemonInit ==
    /\ RegistryInit(InitDisks, {{101}}, {"ready"})
    /\ socket_file = Some(DispatchTask)
    /\ shutdown_sent = FALSE
    /\ stderr_errors = FALSE
    /\ HandleUnseen

\* Daemon::run: one connection, one request, at a time
DaemonNext ==
    \/ \E t \in Tasks, req \in DaemonRequests : Call(t, req)
    \/ \E t \in Tasks : DaemonMethod(t)
    \/ ConnectionMalformed
    \/ ConnectionIoError
    \/ AcceptFailed
    \/ ObserveShutdown

DaemonSpec == DaemonInit /\ [][DaemonNext]_vars

\* The runtime polls the handler the loop awaits until it returns, and
\* select! picks at random among its ready branches, so a shutdown signal
\* that is ready every time the loop comes round is taken in the end.
DaemonLiveSpec ==
    /\ DaemonSpec
    /\ WF_vars(\E t \in Tasks : DaemonMethod(t))
    /\ SF_vars(ObserveShutdown)

\* ------------------------------------------- listing after a rich recovery
\* A manager built by with_recovery() from files whose records carry no pid,
\* the pid of a live process or the pid of a dead one, then started, stopped
\* and listed.
ListingInit ==
    InitWith(StoredFiles({None} \cup {Some(p) : p \in Pids}, {"running"})
                \ {MissingFile, CorruptFile},
             {{101}}, {"recovering"})

ListingRequests ==
    [kind : {"start"}, dir : {"A"}] \cup StopRequests \cup ListRequests

ListingMethod(t) ==
    \/ StartSpawn(t)
    \/ StartInsertSession(t)
    \/ StartInsertProcess(t)
    \/ StopNotFound(t)
    \/ StopRemoveSession(t)
    \/ StopRemoveProcess(t)
    \/ SaveSnapshot(t)
    \/ SaveWrite(t)
    \/ ListSessions(t)

ListingNext ==
    \/ Recover
    \/ \E t \in Tasks, req \in ListingRequests : Call(t, req)
    \/ \E t \in Tasks : ListingMethod(t)

ListingSpec == ListingInit /\ [][ListingNext]_vars

\* ------------------------------------------------- write_state step by step
\* PersistenceManager on its own, as test_persistence_roundtrip drives it.
\* Here `disk` is the state directory: the file at the final path and the
\* temp file beside it (sessions.json.tmp).
StateDir(final, temp) == [kind |-> "dir", final |-> final, temp |-> temp]

\* the maps handed to write_state
WritableMaps == StoredMaps({None, Some(101)}, {"running", "crashed"})

PersistenceInit ==
    /\ InitWith({StateDir(f, MissingFile) :
                    f \in {MissingFile} \cup
                          {JsonFile(ToJson(m)) : m \in WritableMaps}},
                {{101}}, {"ready"})

RegistryUnchanged ==
    UNCHANGED <<sessions, processes, os_alive, next_uuid, pty_writes,
                log_entries, phase, recovery_report, started, stopped,
                spawn_failed, socket_file, shutdown_sent,
                stderr_errors, pty, shutdown_rx, log_file, reads>>

\* serde_json::to_string_pretty(sessions)?
WriteStateSerialize(t) ==
    /\ t = DispatchTask /\ pc[t] = "idle"
    /\ \E m \in WritableMaps, ser_ok \in BOOLEAN :
         IF ser_ok
         THEN /\ pc' = [pc EXCEPT ![t] = "write_temp"]
              /\ op' = [op EXCEPT ![t] = [kind |-> "write_state", map |-> m,
                                          json |-> ToJson(m)]]
              /\ response' = NoResponse
         ELSE Return(t, [op |-> "write_state", ok |-> FALSE])
    /\ UNCHANGED disk
    /\ RegistryUnchanged

\* a write that opens and truncates the file at the final path
WriteFinalTruncate(t) ==
    /\ pc[t] = "write_temp"
    /\ \E opened \in BOOLEAN :
         IF opened
         THEN /\ disk' = StateDir(CorruptFile, disk.temp)
              /\ Goto(t, "write_temp_rest", op[t])
         ELSE /\ UNCHANGED disk
              /\ Return(t, [op |-> "write_state", ok |-> FALSE])
    /\ RegistryUnchanged

\* fs::write(&temp_file, json): the temp file is created or truncated ...
WriteTempTruncate(t) ==
    /\ pc[t] = "write_temp"
    /\ \E opened \in BOOLEAN :
         IF opened
         THEN /\ disk' = StateDir(disk.final, CorruptFile)
              /\ Goto(t, "write_temp_rest", op[t])
         ELSE /\ UNCHANGED disk
              /\ Return(t, [op |-> "write_state", ok |-> FALSE])
    /\ RegistryUnchanged

\* ... and the bytes are written; an error leaves it incomplete
WriteTempRest(t) ==
    /\ pc[t] = "write_temp_rest"
    /\ \E written \in BOOLEAN :
         IF written
         THEN /\ disk' = StateDir(disk.final, JsonFile(op[t].json))
              /\ Goto(t, "rename_temp", op[t])
         ELSE /\ UNCHANGED disk
              /\ Return(t, [op |-> "write_state", ok |-> FALSE])
    /\ RegistryUnchanged

\* fs::rename(&temp_file, &self.state_file)
RenameTemp(t) ==
    /\ pc[t] = "rename_temp"
    /\ \E renamed \in BOOLEAN :
         IF renamed
         THEN /\ disk' = StateDir(disk.temp, MissingFile)
              /\ Return(t, [op |-> "write_state", ok |-> TRUE,
                            map |-> op[t].map])
         ELSE /\ UNCHANGED disk
              /\ Return(t, [op |-> "write_state", ok |-> FALSE])
    /\ RegistryUnchanged

\* the process dies inside write_state; the files stay as they are and a
\* later process starts over
CrashInWrite(t) ==
    /\ pc[t] \in {"write_temp", "write_temp_rest", "rename_temp"}
    /\ Return(t, [op |-> "crash"])
    /\ UNCHANGED disk
    /\ RegistryUnchanged

\* load_state(), and whether it directly follows a write_state that
\* returned Ok
LoadStateCall(t) ==
    /\ t = DispatchTask /\ pc[t] = "idle"
    /\ response.op # "load_state"
    /\ response' = [op |-> "load_state", ok |-> LoadState(disk.final).ok,
                    map |-> LoadState(disk.final).map,
                    after_write |-> (response.op = "write_state"
                                       /\ response.ok)]
    /\ UNCHANGED <<disk, pc, op>>
    /\ RegistryUnchanged

PersistenceNext ==
    \E t \in Tasks :
        \/ WriteStateSerialize(t)
        \/ WriteTempTruncate(t)
        \/ WriteTempRest(t)
        \/ RenameTemp(t)
        \/ CrashInWrite(t)
        \/ LoadStateCall(t)

PersistenceSpec == PersistenceInit /\ [][PersistenceNext]_vars

\* ------------------------------------------------- one SessionProcess inside
\* One session with its handle: the request path (the dispatch task) calls
\* write_input or drops the handle; the output reader runs on a blocking
\* worker of its own (the worker task); the child writes to the terminal
\* and may exit. MaxOutput bounds the bytes the child produces.
MaxOutput == 2

\* let mut buffer = [0u8; 8192]
BufferSize == 8192

\* the session whose handle is looked into
TheId == NumPre + 1

WorkerTask == CHOOSE t \in Tasks : t # DispatchTask

HandleLive == ContainsKey(processes, TheId)

\* the k-th byte the child writes
OutputByte(k) == ToString(k)

\* LogEntry serialized by serde_json::to_string: one JSON text, no newline
JsonFrag(direction, data) ==
    [frag |-> "json", session_id |-> UuidToString(TheId),
     direction |-> direction, data |-> data, size |-> Len(data)]

\* the "\n" writeln! writes after the text, in a write of its own
NewlineFrag == [frag |-> "newline"]

ReaderLocals(buffer, slept) ==
    [kind |-> "output_reader", buffer |-> buffer, slept |-> slept]

PtyFrame ==
    UNCHANGED <<sessions, disk, os_alive, next_uuid, log_entries, phase,
                recovery_report, started, stopped, spawn_failed, daemon_vars>>

\* ---- the output reader (spawn_output_reader's closure)
ReaderAt(label) == pc[WorkerTask] = label

ReaderGoto(label, buffer, slept) ==
    /\ pc' = [pc EXCEPT ![WorkerTask] = label]
    /\ op' = [op EXCEPT ![WorkerTask] = ReaderLocals(buffer, slept)]

\* the closure returns: reader and receiver are dropped
ReaderStop ==
    /\ ReaderGoto("reader_done", <<>>, FALSE)
    /\ shutdown_rx' = "dropped"

\* SessionLogger::new(session_id): Err returns before the loop
ReaderOpenLogger ==
    /\ ReaderAt("logger_new")
    /\ \E io_ok \in BOOLEAN :
         IF io_ok THEN ReaderGoto("check", <<>>, FALSE) /\ UNCHANGED shutdown_rx
         ELSE ReaderStop
    /\ UNCHANGED <<pty, log_file, reads, processes, pty_writes, response>>
    /\ PtyFrame

\* if shutdown_rx.try_recv().is_ok() { break }
ReaderCheckShutdown ==
    /\ ReaderAt("check")
    /\ IF shutdown_rx = "signalled" THEN ReaderStop
       ELSE ReaderGoto("read", <<>>, FALSE) /\ UNCHANGED shutdown_rx
    /\ UNCHANGED <<pty, log_file, reads, processes, pty_writes, response>>
    /\ PtyFrame

Min(a, b) == IF a < b THEN a ELSE b

\* reader.read(&mut buffer): bytes when there are some; end of stream or an
\* error once the child is gone; WouldBlock on a non-blocking descriptor;
\* otherwise the call blocks
ReaderRead ==
    /\ ReaderAt("read")
    /\ IF pty.output # <<>>
       THEN \E n \in 1..Min(Len(pty.output), BufferSize) :
              /\ pty' = [pty EXCEPT !.output = SubSeq(pty.output, n + 1,
                                                      Len(pty.output))]
              /\ reads' = Append(reads, [data |-> SubSeq(pty.output, 1, n),
                                         logged |-> "pending"])
              /\ ReaderGoto("log", SubSeq(pty.output, 1, n), FALSE)
              /\ UNCHANGED shutdown_rx
       ELSE IF pty.child = "exited"
       THEN ReaderStop /\ UNCHANGED <<pty, reads>>
       ELSE /\ pty.nonblocking
            /\ ReaderGoto("sleep", <<>>, FALSE)
            /\ UNCHANGED <<pty, reads, shutdown_rx>>
    /\ UNCHANGED <<log_file, processes, pty_writes, response>>
    /\ PtyFrame

\* thread::sleep(10 ms); continue
ReaderSleep ==
    /\ ReaderAt("sleep")
    /\ ReaderGoto("check", <<>>, TRUE)
    /\ UNCHANGED <<pty, shutdown_rx, log_file, reads, processes, pty_writes,
                   response>>
    /\ PtyFrame

MarkLast(rs, how) == [rs EXCEPT ![Len(rs)].logged = how]

\* a logger that keeps the first byte of a read only
ReaderLogTextTruncated ==
    /\ ReaderAt("log")
    /\ log_file' = Append(log_file,
                          JsonFrag("output",
                                   SubSeq(op[WorkerTask].buffer, 1, 1)))
    /\ reads' = MarkLast(reads, "yes")
    /\ ReaderGoto("log_newline", <<>>, FALSE)
    /\ UNCHANGED <<pty, shutdown_rx, processes, pty_writes, response>>
    /\ PtyFrame

\* logger.log(Output, data): the JSON text is written; an Err is printed
\* and the loop goes on
ReaderLogText ==
    /\ ReaderAt("log")
    /\ \E io_ok \in BOOLEAN :
         IF io_ok
         THEN /\ log_file' = Append(log_file,
                                    JsonFrag("output", op[WorkerTask].buffer))
              /\ reads' = MarkLast(reads, "yes")
              /\ ReaderGoto("log_newline", <<>>, FALSE)
         ELSE /\ reads' = MarkLast(reads, "failed")
              /\ ReaderGoto("check", <<>>, FALSE)
              /\ UNCHANGED log_file
    /\ UNCHANGED <<pty, shutdown_rx, processes, pty_writes, response>>
    /\ PtyFrame

\* writeln!'s newline, then flush
ReaderLogNewline ==
    /\ ReaderAt("log_newline")
    /\ log_file' = Append(log_file, NewlineFrag)
    /\ ReaderGoto("check", <<>>, FALSE)
    /\ UNCHANGED <<pty, shutdown_rx, reads, processes, pty_writes, response>>
    /\ PtyFrame

Reader ==
    \/ ReaderOpenLogger
    \/ ReaderCheckShutdown
    \/ ReaderRead
    \/ ReaderSleep
    \/ ReaderLogText
    \/ ReaderLogNewline

\* ---- the child
ChildOutput ==
    /\ pty.child = "running"
    /\ pty.produced < MaxOutput
    /\ pty' = [pty EXCEPT !.output = Append(@, OutputByte(pty.produced + 1)),
                          !.produced = @ + 1]
    /\ UNCHANGED <<pc, op, shutdown_rx, log_file, reads, processes, pty_writes,
                   response>>
    /\ PtyFrame

ChildExit ==
    /\ pty.child = "running"
    /\ pty' = [pty EXCEPT !.child = "exited"]
    /\ UNCHANGED <<pc, op, shutdown_rx, log_file, reads, processes, pty_writes,
                   response>>
    /\ PtyFrame

\* ---- the request path
WriteInputResult(ok, written, logged, cause) ==
    [op |-> "write_input", ok |-> ok, written |-> written, logged |-> logged,
     cause |-> cause]

\* send_input found the handle and calls process.write_input(input)
WriteInputCall(t, text) ==
    /\ t = DispatchTask /\ pc[t] = "idle"
    /\ HandleLive
    /\ pc' = [pc EXCEPT ![t] = "take_writer"]
    /\ op' = [op EXCEPT ![t] = [kind |-> "write_input",
                                data |-> WithNewline(text)]]
    /\ response' = NoResponse
    /\ UNCHANGED <<pty, shutdown_rx, log_file, reads, processes, pty_writes>>
    /\ PtyFrame

\* a write_input that logs the entry although no writer could be had
TakeWriterLogsAnyway(t) ==
    /\ pc[t] = "take_writer"
    /\ IF pty.writer_taken
       THEN /\ Return(t, WriteInputResult(FALSE, FALSE, TRUE, "writer_taken"))
            /\ log_file' = Append(log_file, JsonFrag("input", op[t].data))
            /\ UNCHANGED pty
       ELSE /\ pty' = [pty EXCEPT !.writer_taken = TRUE]
            /\ Goto(t, "pty_write", op[t])
            /\ UNCHANGED log_file
    /\ UNCHANGED <<shutdown_rx, reads, processes, pty_writes>>
    /\ PtyFrame

\* self.pty_pair.master.take_writer(): the master hands its writer out
\* once; a later call is an error
TakeWriter(t) ==
    /\ pc[t] = "take_writer"
    /\ IF pty.writer_taken
       THEN /\ Return(t, WriteInputResult(FALSE, FALSE, FALSE, "writer_taken"))
            /\ UNCHANGED pty
       ELSE /\ pty' = [pty EXCEPT !.writer_taken = TRUE]
            /\ Goto(t, "pty_write", op[t])
    /\ UNCHANGED <<shutdown_rx, log_file, reads, processes, pty_writes>>
    /\ PtyFrame

\* writer.write_all(data)?; writer.flush()?
PtyWrite(t) ==
    /\ pc[t] = "pty_write"
    /\ \E io_ok \in BOOLEAN :
         IF io_ok
         THEN /\ pty_writes' = Append(pty_writes,
                                      [session_id |-> TheId,
                                       data |-> op[t].data])
              /\ Goto(t, "input_log", op[t])
         ELSE /\ Return(t, WriteInputResult(FALSE, FALSE, FALSE,
                                            "write_failed"))
              /\ UNCHANGED pty_writes
    /\ UNCHANGED <<pty, shutdown_rx, log_file, reads, processes>>
    /\ PtyFrame

\* SessionLogger::new(id)?, then logger.log(Input, data)?: the JSON text
InputLogText(t) ==
    /\ pc[t] = "input_log"
    /\ \E io_ok \in BOOLEAN :
         IF io_ok
         THEN /\ log_file' = Append(log_file, JsonFrag("input", op[t].data))
              /\ Goto(t, "input_log_newline", op[t])
         ELSE /\ Return(t, WriteInputResult(FALSE, TRUE, FALSE, "log_failed"))
              /\ UNCHANGED log_file
    /\ UNCHANGED <<pty, shutdown_rx, reads, processes, pty_writes>>
    /\ PtyFrame

\* writeln!'s newline, flush, Ok(())
InputLogNewline(t) ==
    /\ pc[t] = "input_log_newline"
    /\ log_file' = Append(log_file, NewlineFrag)
    /\ Return(t, WriteInputResult(TRUE, TRUE, TRUE, "none"))
    /\ UNCHANGED <<pty, shutdown_rx, reads, processes, pty_writes>>
    /\ PtyFrame

\* a drop that joins the output reader
DropSessionProcessJoining(t) ==
    /\ t = DispatchTask /\ pc[t] = "idle"
    /\ HandleLive
    /\ ReaderAt("reader_done")
    /\ processes' = Remove(processes, TheId)
    /\ response' = [op |-> "drop"]
    /\ UNCHANGED <<pc, op, pty, shutdown_rx, log_file, reads, pty_writes>>
    /\ PtyFrame

\* the handle leaves the process table (stop_session, or the manager going
\* away at shutdown) and is dropped: try_send(()) on the channel, the
\* JoinHandle let go, the PtyPair released. Nothing here waits.
DropSessionProcess(t) ==
    /\ t = DispatchTask /\ pc[t] = "idle"
    /\ HandleLive
    /\ processes' = Remove(processes, TheId)
    /\ shutdown_rx' = IF shutdown_rx = "empty" THEN "signalled"
                      ELSE shutdown_rx
    /\ response' = [op |-> "drop"]
    /\ UNCHANGED <<pc, op, pty, log_file, reads, pty_writes>>
    /\ PtyFrame

\* SessionProcess::new has returned and start_session has registered it
PtyInit ==
    /\ sessions = (TheId :> SessionNew("A", TheId, TheId))
    /\ processes = (TheId :> [session_id |-> TheId])
    /\ disk = MissingFile
    /\ os_alive = {101}
    /\ next_uuid = TheId + 1
    /\ pty_writes = <<>>
    /\ log_entries = <<>>
    /\ phase = "ready"
    /\ recovery_report = EmptyMap
    /\ pc = [t \in Tasks |-> IF t = WorkerTask THEN "logger_new" ELSE "idle"]
    /\ op = [t \in Tasks |-> IF t = WorkerTask THEN ReaderLocals(<<>>, FALSE)
                                ELSE NoOp]
    /\ response = NoResponse
    /\ started = (TheId :> "A")
    /\ stopped = {}
    /\ spawn_failed = {}
    /\ socket_file = None
    /\ shutdown_sent = FALSE
    /\ stderr_errors = FALSE
    /\ pty \in [child : {"running"}, output : {<<>>}, produced : {0},
                writer_taken : {FALSE}, nonblocking : BOOLEAN]
    /\ shutdown_rx = "empty"
    /\ log_file = <<>>
    /\ reads = <<>>

PtyNext ==
    \/ Reader
    \/ ChildOutput
    \/ ChildExit
    \/ \E t \in Tasks :
        \/ WriteInputCall(t, <<"x">>)
        \/ TakeWriter(t)
        \/ PtyWrite(t)
        \/ InputLogText(t)
        \/ InputLogNewline(t)
        \/ DropSessionProcess(t)

PtySpec == PtyInit /\ [][PtyNext]_vars

\* the blocking worker runs whenever it has a step to take
PtyLiveSpec == PtySpec /\ WF_vars(Reader)

\* ------------------------------------------------------------ lock discipline
\* The manager's three mutexes and what each method does with them, one
\* instruction per lock().await, guard drop and I/O call, in source order.
\* A task's op is [kind, at, held]: the method, the instruction it stands
\* before and the locks it holds.
RegistryLocks == {"sessions", "processes"}

Lock(m) == [do |-> "lock", on |-> m]
Unlock(m) == [do |-> "unlock", on |-> m]
Io(what) == [do |-> "io", on |-> what]

\* save_state: both registry locks, dropped, then the persistence lock
\* around write_state
SaveStateScript ==
    <<Lock("sessions"), Lock("processes"), Unlock("sessions"),
      Unlock("processes"), Lock("persistence"), Io("state_file"),
      Unlock("persistence")>>

\* start_session: spawn first, then one scope per table, then save_state
StartScript ==
    <<Io("spawn"), Lock("sessions"), Unlock("sessions"), Lock("processes"),
      Unlock("processes")>> \o SaveStateScript

\* stop_session on a known id
StopScript ==
    <<Lock("sessions"), Unlock("sessions"), Lock("processes"),
      Unlock("processes")>> \o SaveStateScript

\* stop_session bailing inside the sessions scope
StopMissingScript == <<Lock("sessions"), Unlock("sessions")>>

\* a listing that takes the process table first
ListScriptProcessesFirst ==
    <<Lock("processes"), Lock("sessions"), Unlock("sessions"),
      Unlock("processes")>>

\* list_sessions: both guards live to the end of the function and drop in
\* reverse order of declaration
ListScript ==
    <<Lock("sessions"), Lock("processes"), Unlock("processes"),
      Unlock("sessions")>>

\* send_input with a handle: the processes guard lives across
\* process.write_input (terminal write and flush, then the log append)
SendScript ==
    <<Lock("processes"), Io("terminal"), Io("log_file"), Unlock("processes")>>

\* send_input without a handle
SendMissingScript == <<Lock("processes"), Unlock("processes")>>

\* recover_sessions on a non-empty file: load under the persistence lock,
\* rebuild under the sessions lock, save_state
RecoverScript ==
    <<Lock("persistence"), Io("state_file"), Unlock("persistence"),
      Lock("sessions"), Unlock("sessions")>> \o SaveStateScript

ScriptKinds ==
    {"start", "stop", "stop_missing", "list", "send", "send_missing"}

ScriptOf(kind) ==
    CASE kind = "start" -> StartScript
      [] kind = "stop" -> StopScript
      [] kind = "stop_missing" -> StopMissingScript
      [] kind = "list" -> ListScript
      [] kind = "send" -> SendScript
      [] kind = "send_missing" -> SendMissingScript
      [] OTHER -> RecoverScript

InScript(t) == pc[t] = "in_script"

\* the instruction task t stands before; none once the method is through
AtEnd(t) == op[t].at > Len(ScriptOf(op[t].kind))
Instr(t) == ScriptOf(op[t].kind)[op[t].at]

Holder(m) == {u \in Tasks : InScript(u) /\ m \in op[u].held}

LockFrame ==
    /\ ManagerUnchanged
    /\ UNCHANGED <<daemon_vars, pty_vars>>

Advance(t, held) ==
    /\ op' = [op EXCEPT ![t] = [kind |-> op[t].kind, at |-> op[t].at + 1,
                                held |-> held]]
    /\ UNCHANGED <<pc, response, phase>>
    /\ LockFrame

\* a caller enters a method of the shared manager
ScriptCall(t, kind) ==
    /\ phase = "ready"
    /\ pc[t] = "idle"
    /\ pc' = [pc EXCEPT ![t] = "in_script"]
    /\ op' = [op EXCEPT ![t] = [kind |-> kind, at |-> 1, held |-> {}]]
    /\ response' = NoResponse
    /\ UNCHANGED phase
    /\ LockFrame

\* with_recovery runs recover_sessions before the manager is handed out
RecoverCall ==
    /\ phase = "recovering"
    /\ pc[DispatchTask] = "idle"
    /\ pc' = [pc EXCEPT ![DispatchTask] = "in_script"]
    /\ op' = [op EXCEPT ![DispatchTask] =
                  [kind |-> "recover", at |-> 1, held |-> {}]]
    /\ UNCHANGED <<response, phase>>
    /\ LockFrame

\* mutex.lock().await: granted when no task holds the mutex
LockStep(t) ==
    /\ InScript(t) /\ ~AtEnd(t)
    /\ Instr(t).do = "lock"
    /\ Holder(Instr(t).on) = {}
    /\ Advance(t, op[t].held \cup {Instr(t).on})

\* the guard is dropped
UnlockStep(t) ==
    /\ InScript(t) /\ ~AtEnd(t)
    /\ Instr(t).do = "unlock"
    /\ Advance(t, op[t].held \ {Instr(t).on})

\* a spawn, a terminal write, a log append, a state file read or write
IoStep(t) ==
    /\ InScript(t) /\ ~AtEnd(t)
    /\ Instr(t).do = "io"
    /\ Advance(t, op[t].held)

ScriptReturn(t) ==
    /\ InScript(t) /\ AtEnd(t)
    /\ Return(t, [op |-> "script", kind |-> op[t].kind])
    /\ phase' = "ready"
    /\ LockFrame

LockInit == InitWith({MissingFile}, {{101}}, {"ready", "recovering"})

LockNext ==
    \/ \E t \in Tasks, kind \in ScriptKinds : ScriptCall(t, kind)
    \/ RecoverCall
    \/ \E t \in Tasks :
        \/ LockStep(t)
        \/ UnlockStep(t)
        \/ IoStep(t)
        \/ ScriptReturn(t)

LockSpec == LockInit /\ [][LockNext]_vars

\* --------------------------------------------------------- is_process_alive
\* what the operating system holds for a pid: no process, a process of the
\* daemon's user, a zombie of that user, a process of another user
ProcStates == {"none", "own", "zombie", "foreign"}

\* kill(pid, 0): success for a process the caller may signal (a zombie
\* included), EPERM for one it may not, ESRCH when there is none
KillZero(state) ==
    CASE state = "none" -> "ESRCH"
      [] state = "foreign" -> "EPERM"
      [] OTHER -> "ok"

\* unix branch: libc::kill(pid as i32, 0) == 0
ProbeAnswer(state) == KillZero(state) = "ok"

ProbeRequests == [kind : {"probe"}, pid : Pids, state : ProcStates]

\* a probe the process world allows: os_alive holds the pids kill(pid, 0)
\* succeeds for
ProbeCall(t, req) ==
    /\ ProbeAnswer(req.state) <=> IsProcessAlive(req.pid)
    /\ Call(t, req)

IsProcessAliveCall(t) ==
    /\ pc[t] = "called" /\ op[t].kind = "probe"
    /\ Return(t, [op |-> "probe", pid |-> op[t].pid, state |-> op[t].state,
                  alive |-> ProbeAnswer(op[t].state)])
    /\ ManagerUnchanged
    /\ UNCHANGED phase
    /\ UNCHANGED <<daemon_vars, pty_vars>>

ProbeInit == InitWith(InitDisks, SUBSET Pids, {"ready"})

ProbeNext ==
    \/ \E t \in Tasks, req \in ProbeRequests : ProbeCall(t, req)
    \/ \E t \in Tasks : IsProcessAliveCall(t)

ProbeSpec == ProbeInit /\ [][ProbeNext]_vars

\* ----------------------------------------------------------- daemon startup
\* Each task is one `claude-sessions daemon` process of the same user; they
\* share the socket path. socket_file holds the process whose listener the
\* file at that path belongs to. pc: "idle" (not running), "checked" (past
\* main's is_running test), "cleared" (past run's stale-socket removal),
\* "serving" (bound, in the accept loop).
StartupUnchanged ==
    /\ ManagerUnchanged
    /\ UNCHANGED <<op, phase, shutdown_sent, stderr_errors>>

StartOutcome(d, ok, error) ==
    [op |-> "daemon_start", daemon |-> d, ok |-> ok, error |-> error]

\* Daemon::is_running: the socket path exists
IsRunning == socket_file # None

\* main: Daemon::is_running() => "Daemon is already running", exit(1)
MainRefuses(d) ==
    /\ pc[d] = "idle"
    /\ IsRunning
    /\ response' = StartOutcome(d, FALSE, "already_running")
    /\ UNCHANGED <<pc, socket_file>>
    /\ StartupUnchanged

\* main: the path does not exist, go on to Daemon::new and run
MainProceeds(d) ==
    /\ pc[d] = "idle"
    /\ ~IsRunning
    /\ pc' = [pc EXCEPT ![d] = "checked"]
    /\ response' = NoResponse
    /\ UNCHANGED socket_file
    /\ StartupUnchanged

\* run: if the socket path exists, remove it
RunRemoveStale(d) ==
    /\ pc[d] = "checked"
    /\ socket_file' = None
    /\ pc' = [pc EXCEPT ![d] = "cleared"]
    /\ UNCHANGED response
    /\ StartupUnchanged

\* run: UnixListener::bind creates the socket file; it fails (address in
\* use) when a file is at the path, and run returns the error
RunBind(d) ==
    /\ pc[d] = "cleared"
    /\ IF socket_file = None
          THEN /\ socket_file' = Some(d)
               /\ pc' = [pc EXCEPT ![d] = "serving"]
               /\ response' = StartOutcome(d, TRUE, "none")
          ELSE /\ pc' = [pc EXCEPT ![d] = "idle"]
               /\ response' = StartOutcome(d, FALSE, "bind_failed")
               /\ UNCHANGED socket_file
    /\ StartupUnchanged

\* run after its loop: remove_file(&self.socket_path), by path
RunShutdown(d) ==
    /\ pc[d] = "serving"
    /\ socket_file' = None
    /\ pc' = [pc EXCEPT ![d] = "idle"]
    /\ response' = [op |-> "daemon_stopped", daemon |-> d]
    /\ StartupUnchanged

\* the process is killed: nothing removes its socket file
DaemonKilled(d) ==
    /\ pc[d] = "serving"
    /\ pc' = [pc EXCEPT ![d] = "idle"]
    /\ response' = [op |-> "daemon_killed", daemon |-> d]
    /\ UNCHANGED socket_file
    /\ StartupUnchanged

\* the daemons a client's connect() to the socket path reaches
Reachable ==
    {d \in Tasks : socket_file = Some(d) /\ pc[d] = "serving"}

\* Client::send_request(Ping): connect to the path, one line each way
ClientPing ==
    /\ response' = [op |-> "client_ping", answered_by |-> Reachable]
    /\ UNCHANGED <<pc, socket_file>>
    /\ StartupUnchanged

StartupInit ==
    /\ RegistryInit(InitDisks, {{101}}, {"ready"})
    /\ socket_file = None
    /\ shutdown_sent = FALSE
    /\ stderr_errors = FALSE
    /\ HandleUnseen

StartupNext ==
    \/ \E d \in Tasks :
        \/ MainRefuses(d)
        \/ MainProceeds(d)
        \/ RunRemoveStale(d)
        \/ RunBind(d)
        \/ RunShutdown(d)
        \/ DaemonKilled(d)
    \/ ClientPing

StartupSpec == StartupInit /\ [][StartupNext]_vars

\* ------------------------------------------------------------------ claims
\* list entries a list_sessions() issued now would hold for id
EntriesFor(id) ==
    {k \in DOMAIN ListOf(sessions, processes) :
        ListOf(sessions, processes)[k].id = UuidToString(id)}

\* a stop_session(id) that has already removed id from the session table
StopUnderWay(id) ==
    \E t \in Tasks :
        /\ pc[t] \in {"stop_remove_process", "save_snapshot", "save_write"}
        /\ op[t].kind = "stop" /\ op[t].id = id

Quiescent == phase = "ready" /\ \A t \in Tasks : pc[t] = "idle"

\* C1: for an existing directory D whose spawn succeeds, the id start_session
\* allocates is in neither table when it is allocated, and once it has been
\* returned (and no stop_session of it has begun) a list_sessions() holds
\* exactly one entry with that id, whose working_dir is D.
C1_StartFreshAndListed ==
    /\ \A t \in Tasks :
         pc[t] = "start_insert_session" =>
            /\ op[t].dir \in ExistingDirs
            /\ op[t].id \notin DOMAIN sessions
            /\ op[t].id \notin DOMAIN processes
            /\ op[t].id \notin DOMAIN started
    /\ \A id \in DOMAIN started :
         (id \notin stopped /\ ~StopUnderWay(id)) =>
            /\ Cardinality(EntriesFor(id)) = 1
            /\ \A k \in EntriesFor(id) :
                 ListOf(sessions, processes)[k].working_dir = started[id]

C1_Witness ==
    /\ Quiescent
    /\ \E a \in DOMAIN started, b \in DOMAIN started :
         /\ a # b /\ started[a] # started[b]
         /\ a \notin stopped /\ b \notin stopped
    /\ DOMAIN recovery_report # {}

\* task t takes the first step of the method it was called with
Begins(t, kind) == pc[t] = "called" /\ op[t].kind = kind /\ pc'[t] # "called"

\* C2: start_session on a directory that does not exist fails, and the
\* session table, the process table and the state file are left as they
\* were; no id is allocated and no spawn attempted, nothing is written.
C2_StartMissingDirStep ==
    \A t \in Tasks :
        (Begins(t, "start") /\ op[t].dir \notin ExistingDirs) =>
            /\ pc'[t] = "idle"
            /\ response' = [op |-> "start", dir |-> op[t].dir, ok |-> FALSE,
                            error |-> "dir_not_exist"]
            /\ UNCHANGED <<sessions, processes, disk, next_uuid, spawn_failed,
                           started>>

C2_StartMissingDirRejected == [][C2_StartMissingDirStep]_vars

C2_Witness ==
    /\ response.op = "start" /\ ~response.ok
    /\ response.error = "dir_not_exist"
    /\ DOMAIN processes # {}
    /\ disk.kind = "json"

\* C3: stop_session on an id absent from the session table fails with the
\* not-found error and leaves what list_sessions() returns, the process
\* table and the state file unchanged.
C3_StopUnknownStep ==
    \A t \in Tasks :
        (Begins(t, "stop") /\ op[t].id \notin DOMAIN sessions) =>
            /\ pc'[t] = "idle"
            /\ response' = [op |-> "stop", id |-> op[t].id, ok |-> FALSE,
                            error |-> "session_not_found"]
            /\ ListOf(sessions', processes') = ListOf(sessions, processes)
            /\ UNCHANGED <<processes, disk>>

C3_StopUnknownRejected == [][C3_StopUnknownStep]_vars

C3_Witness ==
    /\ response.op = "stop" /\ ~response.ok
    /\ response.error = "session_not_found"
    /\ DOMAIN processes # {}
    /\ disk.kind = "json"

\* C4: from an empty manager, once the start_session and stop_session calls
\* made so far have returned, list_sessions() holds exactly one entry for
\* every id started and not stopped, none for a stopped id, and no two
\* entries share an id.
C4_ListIsStartedMinusStopped ==
    (Quiescent /\ DOMAIN recovery_report = {}) =>
        /\ {ListOf(sessions, processes)[k].id :
                k \in DOMAIN ListOf(sessions, processes)}
             = {UuidToString(id) : id \in (DOMAIN started) \ stopped}
        /\ \A id \in (DOMAIN started) \ stopped : Cardinality(EntriesFor(id)) = 1
        /\ \A id \in stopped : EntriesFor(id) = {}
        /\ Cardinality(DOMAIN ListOf(sessions, processes))
             = Cardinality((DOMAIN started) \ stopped)

C4_Witness ==
    /\ Quiescent /\ DOMAIN recovery_report = {}
    /\ Cardinality(DOMAIN started) = 2
    /\ Cardinality(stopped) = 1
    /\ Cardinality(DOMAIN ListOf(sessions, processes)) = 1
    /\ \A k \in DOMAIN ListOf(sessions, processes) :
         ListOf(sessions, processes)[k].working_dir = "B"

\* C5: every id in the process table is also in the session table, in
\* every reachable state, the states between the two critical sections of
\* start_session and of stop_session included.
C5_HandleHasSession == DOMAIN processes \subseteq DOMAIN sessions

\* C6: when the spawn or the creation of the process handle fails,
\* start_session returns an error, and the id allocated for the attempt is
\* in neither table nor in the state file.
C6_NoPartialRegistration ==
    /\ \A id \in spawn_failed :
         /\ id \notin DOMAIN sessions
         /\ id \notin DOMAIN processes
         /\ id \notin DOMAIN started
         /\ disk.kind = "json" => UuidToString(id) \notin DOMAIN disk.json
    /\ (response.op = "start" /\ response.dir \in ExistingDirs /\ ~response.ok)
          => response.error = "spawn_failed"

C6_Witness ==
    /\ response.op = "start" /\ ~response.ok
    /\ response.error = "spawn_failed"
    /\ spawn_failed # {}
    /\ DOMAIN started # {}
    /\ disk.kind = "json"

\* the method of task t returns in this step
Returns(t) == pc[t] # "idle" /\ pc'[t] = "idle"

\* C7: when the persistence write of start_session or stop_session fails,
\* the call still returns success, the tables hold the mutation (after a
\* start the session with its handle, after a stop neither), and the state
\* file keeps its content; the file changes only by a successful save.
C7_SaveFailureStep ==
    /\ \A t \in Tasks :
         (pc[t] = "save_write" /\ Returns(t)) =>
            /\ response'.ok /\ response'.op = op[t].kind
            /\ response'.id = op[t].id
            /\ response'.warned => disk' = disk
            /\ ~response'.warned => disk' = JsonFile(ToJson(op[t].snapshot))
            /\ op[t].kind = "start" =>
                  /\ op[t].id \in DOMAIN sessions'
                  /\ op[t].id \in DOMAIN processes'
            /\ op[t].kind = "stop" =>
                  /\ op[t].id \notin DOMAIN sessions'
                  /\ op[t].id \notin DOMAIN processes'
    /\ disk' # disk =>
          \/ \E t \in Tasks : pc[t] = "save_write" /\ Returns(t)
                                /\ ~response'.warned
          \/ phase = "recovering"

C7_SaveFailureSwallowed == [][C7_SaveFailureStep]_vars

C7_Witness ==
    /\ response.op = "stop" /\ response.ok /\ response.warned
    /\ DOMAIN started # {}
    /\ disk = MissingFile

\* C8: stop_session on an id in the session table succeeds with or without
\* a live handle; from then on the id is in neither table, and it is absent
\* from the map the following save writes.
C8_StopRemovesEverywhere ==
    /\ (response.op = "stop" /\ ~response.ok)
          => response.id \notin DOMAIN sessions
    /\ \A id \in stopped :
          id \notin DOMAIN sessions /\ id \notin DOMAIN processes
    /\ \A t \in Tasks :
          (op[t].kind = "stop" /\ pc[t] \in {"save_snapshot", "save_write"}) =>
             /\ op[t].id \notin DOMAIN sessions
             /\ op[t].id \notin DOMAIN processes
    /\ \A t \in Tasks :
          (op[t].kind = "stop" /\ pc[t] = "save_write") =>
             op[t].id \notin DOMAIN op[t].snapshot
    /\ (response.op = "stop" /\ response.ok /\ ~response.warned) =>
          /\ disk.kind = "json"
          /\ UuidToString(response.id) \notin DOMAIN disk.json

C8_Witness ==
    /\ response.op = "stop" /\ response.ok /\ ~response.warned
    /\ \E a \in stopped, b \in stopped :
         /\ a \in DOMAIN recovery_report
         /\ b \in DOMAIN started

\* C9: send_input fails with the not-found error whenever the process table
\* has no handle for the id, also when the id is a recovered session of the
\* session table; nothing is written to a terminal or a log and no table
\* changes.
C9_SendNoHandleStep ==
    \A t \in Tasks :
        (Begins(t, "send") /\ op[t].id \notin DOMAIN processes) =>
            /\ pc'[t] = "idle"
            /\ response' = [op |-> "send", id |-> op[t].id, ok |-> FALSE,
                            error |-> "no_pty_handle"]
            /\ UNCHANGED <<pty_writes, log_entries, sessions, processes, disk>>

C9_SendNoHandleRejected == [][C9_SendNoHandleStep]_vars

C9_Witness ==
    /\ response.op = "send" /\ ~response.ok
    /\ response.error = "no_pty_handle"
    /\ response.id \in DOMAIN sessions
    /\ response.id \in DOMAIN recovery_report
    /\ DOMAIN processes # {}

\* C10: the status recovery gives a record is decided by its pid and the
\* liveness probe alone: no pid gives stale, a pid whose probe says dead
\* gives crashed, a pid whose probe says alive gives orphaned, whatever the
\* record's other fields hold.
C10_ClassificationByPidAndProbe ==
    \A k \in DOMAIN recovery_report :
        recovery_report[k].status =
            IF recovery_report[k].pid = None THEN "stale"
            ELSE IF recovery_report[k].pid \subseteq os_alive THEN "orphaned"
            ELSE "crashed"

C10_Witness ==
    \E k \in DOMAIN recovery_report :
        /\ recovery_report[k].pid # None
        /\ recovery_report[k].on_disk = "stopped"
        /\ recovery_report[k].status = "crashed"

\* C11: recover_sessions leaves the process table as it was, and a session
\* that entered the session table through recovery never has a handle and
\* is never given status running by list_sessions, whatever operations
\* follow the recovery.
C11_RecoveredStep ==
    /\ phase = "recovering" => processes' = processes
    /\ \A id \in DOMAIN recovery_report' :
         /\ id \notin DOMAIN processes'
         /\ id \in DOMAIN sessions' =>
               ListOf(sessions', processes')[id].status # "running"
         /\ (response'.op = "list" /\ id \in DOMAIN response'.list) =>
               response'.list[id].status # "running"

C11_RecoveredNeverRunning == [][C11_RecoveredStep]_vars

C11_Witness ==
    /\ response.op = "list"
    /\ \E a \in DOMAIN response.list, b \in DOMAIN response.list :
         /\ a \in DOMAIN recovery_report
         /\ response.list[a].status = "stale"
         /\ b \in DOMAIN started
         /\ response.list[b].status = "running"

\* C12: recover_sessions has completed before the daemon accepts its first
\* request, so a ListSessions answered before any session was started or
\* stopped holds every session recorded in the state file.
C12_FirstListHoldsPersisted ==
    (response.op = "list" /\ started = EmptyMap /\ stopped = {}
        /\ disk.kind = "json") =>
        \A s \in DOMAIN disk.json :
            \E k \in DOMAIN response.list : response.list[k].id = s

\* C13: after recover_sessions has completed on a non-empty persisted map
\* and its write succeeded, every record of the state file carries the
\* status recovery computed for it, and none carries status running.
C13_RecoveryPersistsStatus ==
    (response.op = "recover" /\ response.saved) =>
        /\ disk.kind = "json"
        /\ \A k \in DOMAIN recovery_report :
             /\ UuidToString(k) \in DOMAIN disk.json
             /\ disk.json[UuidToString(k)].status = recovery_report[k].status
        /\ \A s \in DOMAIN disk.json : disk.json[s].status # "running"

\* C14: after recover_sessions on a persisted map m the session table holds
\* exactly the ids of m, and each recovered Session has the id, working_dir,
\* created_at and log_path of its persisted record; no other id appears.
C14_RecoveredStep ==
    (phase = "recovering" /\ disk.kind = "json") =>
        /\ DOMAIN sessions' = {ParseUuid(s) : s \in DOMAIN disk.json}
        /\ \A s \in DOMAIN disk.json :
             /\ UuidToString(sessions'[ParseUuid(s)].id) = disk.json[s].id
             /\ sessions'[ParseUuid(s)].working_dir = disk.json[s].working_dir
             /\ sessions'[ParseUuid(s)].created_at = disk.json[s].created_at
             /\ sessions'[ParseUuid(s)].log_path = disk.json[s].log_path

C14_RecoveredMatchesPersisted == [][C14_RecoveredStep]_vars

C14_Witness ==
    /\ response.op = "recover" /\ ~response.ok
    /\ DOMAIN sessions # {}
    /\ disk.kind = "json"
    /\ \E s \in DOMAIN disk.json : disk.json[s].pid # "null"

\* C15: load_state on a state file whose content cannot be parsed returns
\* an empty map, not an error: a recovery that read such a file finds
\* nothing to recover and returns Ok.
C15_CorruptLoadsEmpty ==
    (response.op = "recover" /\ disk.kind = "corrupt") =>
        /\ LoadState(disk).ok
        /\ LoadState(disk).map = EmptyMap
        /\ response.ok

\* C16: the state file never makes construction with recovery fail: from a
\* missing or unparseable file with_recovery returns a manager that is
\* ready, with an empty session table and an empty process table.
C16_RecoveryStep ==
    (phase = "recovering" /\ disk.kind \in {"missing", "corrupt"}) =>
        /\ phase' = "ready"
        /\ sessions' = EmptyMap
        /\ processes' = EmptyMap
        /\ disk' = disk

C16_RecoveryNeverFails == [][C16_RecoveryStep]_vars

C16_Witness ==
    /\ response.op = "recover" /\ ~response.ok
    /\ disk.kind = "corrupt"
    /\ phase = "ready"
    /\ sessions = EmptyMap /\ processes = EmptyMap

\* C17: a write_state(m) that returned Ok followed by load_state() returns a
\* map equal to m: the same keys and, under every key, the same id,
\* working_dir, created_at, log_path, pid and status.
C17_RoundTripStep ==
    (response.op = "write_state" /\ response'.op = "load_state") =>
        (response.ok =>
            /\ response'.ok
            /\ DOMAIN response'.map = DOMAIN response.map
            /\ \A k \in DOMAIN response.map :
                 /\ response'.map[k].id = response.map[k].id
                 /\ response'.map[k].working_dir = response.map[k].working_dir
                 /\ response'.map[k].created_at = response.map[k].created_at
                 /\ response'.map[k].log_path = response.map[k].log_path
                 /\ response'.map[k].pid = response.map[k].pid
                 /\ response'.map[k].status = response.map[k].status)

C17_RoundTrip == [][C17_RoundTripStep]_vars

C17_Witness ==
    /\ response.op = "load_state" /\ response.after_write
    /\ \E k \in DOMAIN response.map :
         /\ response.map[k].pid # None
         /\ response.map[k].status = "crashed"

\* C18: at every point of write_state, a crash between its steps included,
\* the file at the final path holds the complete previous map or the
\* complete new map: it changes only by the rename, to the whole new map.
C18_FinalPathStep ==
    /\ disk'.final.kind # "corrupt"
    /\ disk'.final # disk.final =>
          \E t \in Tasks :
              /\ pc[t] = "rename_temp"
              /\ disk'.final = JsonFile(ToJson(op[t].map))

C18_FinalPathWhole == [][C18_FinalPathStep]_vars

C18_Witness ==
    /\ response.op = "crash"
    /\ disk.temp.kind = "corrupt"
    /\ disk.final.kind = "json"
    /\ DOMAIN disk.final.json # {}

\* C19: a Ping request is answered with Pong in every state the daemon can
\* be in, and the session table, the process table and the state file are
\* left unchanged.
C19_PingStep ==
    \A t \in Tasks :
        Begins(t, "ping") =>
            /\ pc'[t] = "idle"
            /\ response' = [op |-> "ping", pong |-> TRUE]
            /\ UNCHANGED <<sessions, processes, disk>>

C19_PingAnswersPong == [][C19_PingStep]_vars

C19_Witness ==
    /\ response.op = "ping"
    /\ DOMAIN processes # {}
    /\ disk.kind = "json"
    /\ DOMAIN disk.json # {UuidToString(k) : k \in DOMAIN sessions}

\* C20: list_sessions gives every session of the session table one entry,
\* with status running exactly when the process table holds a handle for
\* its id at the time of the call and status stale otherwise, whatever
\* recovery classified it as.
C20_ListStatusStep ==
    \A t \in Tasks :
        Begins(t, "list") =>
            /\ DOMAIN response'.list = DOMAIN sessions
            /\ \A k \in DOMAIN sessions :
                 response'.list[k].status =
                    IF k \in DOMAIN processes THEN "running" ELSE "stale"

C21_SendInputStep ==
    \A t \in Tasks :
        Begins(t, "send") =>
            /\ response'.op = "send"
            /\ response'.id = op[t].id

C21_SendInputDispatched == [][C21_SendInputStep]_vars

\* C22: when a connection delivers a line that does not decode as a
\* request, the daemon writes an Error response on that connection before
\* closing it.
C22_MalformedAnswered ==
    (response.op = "connection_error" /\ response.cause = "parse") =>
        response.written

\* the accept loop's error outcomes, as run logs them
ErrorOutcomes == {"connection_error", "accept_failed"}

\* C23: a malformed request, a connection I/O error or a failed accept
\* leaves the session tables and the state file as they were and the accept
\* loop running; requests on later connections are still accepted, and
\* answered, as long as no shutdown has been observed.
C23_ErrorStep ==
    (response'.op \in ErrorOutcomes) =>
        /\ UNCHANGED <<sessions, processes, disk, pc, shutdown_sent>>
        /\ phase' = "ready"
        /\ socket_file' = socket_file

C23_StillAccepting ==
    (stderr_errors /\ AtSelect) =>
        \A req \in DaemonRequests :
            Admissible(req) => ENABLED Call(DispatchTask, req)

C23_ErrorsDoNotStopLoop ==
    /\ [][C23_ErrorStep]_vars
    /\ []C23_StillAccepting
    /\ \A t \in Tasks :
         (stderr_errors /\ pc[t] = "called") ~> (pc[t] = "idle")

C23_Witness ==
    /\ stderr_errors
    /\ response.op = "start" /\ response.ok
    /\ \E k \in DOMAIN sessions : k \in DOMAIN processes

\* connections whose request has been accepted and not yet answered
InHandling == {t \in Tasks : pc[t] # "idle"}

\* C24: the daemon handles at most one connection at a time: a connection
\* is accepted only when no other is being handled, so the manager
\* operations of different requests never interleave.
C24_AcceptStep ==
    \A t \in Tasks :
        (pc[t] = "idle" /\ pc'[t] # "idle") => InHandling = {}

C24_OneConnectionAtATime ==
    /\ [](Cardinality(InHandling) <= 1)
    /\ [][C24_AcceptStep]_vars

C24_Witness ==
    \E t \in Tasks :
        /\ pc[t] = "stop_remove_process"
        /\ \E k \in DOMAIN sessions : k # op[t].id

\* C25: a Shutdown request is answered with Ok while the daemon is still
\* running; the accept loop exits only from its select!, with no connection
\* in handling, and removes the socket file; once Shutdown has been
\* answered the loop eventually exits.
C25_ShutdownStep ==
    /\ \A t \in Tasks :
         Begins(t, "shutdown") =>
             /\ response' = [op |-> "shutdown", ok |-> TRUE]
             /\ pc'[t] = "idle"
             /\ phase' = "ready"
             /\ socket_file' = socket_file
    /\ (phase = "ready" /\ phase' = "stopped") =>
             /\ shutdown_sent
             /\ InHandling = {}
             /\ socket_file' = None

Serving == {d \in Tasks : pc[d] = "serving"}

\* C26: at most one daemon instance serves the socket path at any time, and
\* a daemon that is serving stays the one clients reach at that path.
C26_SingleDaemon ==
    /\ Cardinality(Serving) <= 1
    /\ \A d \in Serving : Reachable = {d}

\* C27: is_process_alive(pid) returns false only when no process with that
\* pid exists; for the pid of an existing process, one the daemon may not
\* signal included, it returns true.
C27_FalseOnlyWhenUnused ==
    (response.op = "probe" /\ response.state # "none") => response.alive

\* C28: after a successful save made while a session has a live process
\* handle, the persisted record of that session holds the pid of its child,
\* so that recovery from that file classifies it by pid (crashed or
\* orphaned), not as stale.
C28_SavedPidRecorded ==
    (response.op \in {"start", "stop"} /\ response.ok /\ ~response.warned) =>
        \A k \in DOMAIN processes \cap DOMAIN sessions :
            /\ disk.kind = "json"
            /\ UuidToString(k) \in DOMAIN disk.json
            /\ disk.json[UuidToString(k)].pid # "null"
            /\ RecoveryStatus(RecordFromJson(disk.json[UuidToString(k)]))
                   # "stale"

\* the state file holds one record per session of the table, under the
\* session's id, with the session's id, working_dir, created_at and log_path
FileMatchesTable ==
    /\ disk.kind = "json"
    /\ DOMAIN disk.json = {UuidToString(k) : k \in DOMAIN sessions}
    /\ \A k \in DOMAIN sessions :
         LET rec == RecordFromJson(disk.json[UuidToString(k)]) IN
         /\ rec.id = sessions[k].id
         /\ rec.working_dir = sessions[k].working_dir
         /\ rec.created_at = sessions[k].created_at
         /\ rec.log_path = sessions[k].log_path

\* the last operation was a start, a stop or a non-empty recovery whose
\* persistence write succeeded
SavedLast ==
    \/ response.op \in {"start", "stop"} /\ response.ok /\ ~response.warned
    \/ response.op = "recover" /\ response.saved

\* C29: under sequential dispatch, after every start_session, stop_session
\* or non-empty recovery whose persistence write succeeds, the keys of the
\* state file are the ids of the session table and each record carries the
\* id, working_dir, created_at and log_path of its session.
C29_FileMatchesTableAfterSave == SavedLast => FileMatchesTable

C29_Witness ==
    /\ response.op = "stop" /\ response.ok /\ ~response.warned
    /\ \E k \in DOMAIN sessions : k \in DOMAIN recovery_report
    /\ \E k \in DOMAIN sessions : k \in DOMAIN processes

\* C30: when start_session / stop_session calls run concurrently and their
\* persistence writes succeed, the file left after both have returned is
\* the final session table: a successful write by the last operation to
\* return never replaces a file that matches the table by an older snapshot.
C30_LastWriteStep ==
    \A t \in Tasks :
        (/\ pc[t] = "save_write" /\ Returns(t)
         /\ ~response'.warned
         /\ \A u \in Tasks \ {t} : pc[u] = "idle"
         /\ FileMatchesTable) => FileMatchesTable'

C30_NoStaleSnapshotWritten == [][C30_LastWriteStep]_vars

\* the locks task t acquires in the step
Acquired(t) ==
    IF InScript(t) /\ pc'[t] = "in_script"
    THEN op'[t].held \ op[t].held ELSE {}

\* C31: the registry locks are taken in the order session table, then
\* process table (the session-table lock is never acquired while the
\* process-table lock is held), and the persistence lock is never acquired
\* while a registry lock is held.
C31_AcquireStep ==
    \A t \in Tasks :
        /\ "sessions" \in Acquired(t) => "processes" \notin op[t].held
        /\ "persistence" \in Acquired(t) =>
               op[t].held \cap RegistryLocks = {}

C31_LockOrder == [][C31_AcquireStep]_vars

C31_Witness ==
    \E t, u \in Tasks :
        /\ InScript(t) /\ op[t].held = RegistryLocks
        /\ InScript(u) /\ op[u].held = {"persistence"}

\* C32: no manager operation holds the session-table lock or the
\* process-table lock while it performs terminal or file I/O; during
\* send_input the process-table lock is released before the terminal write
\* and the log append.
C32_NoIoUnderRegistryLock ==
    \A t \in Tasks :
        (InScript(t) /\ ~AtEnd(t) /\ Instr(t).do = "io") =>
            op[t].held \cap RegistryLocks = {}

\* the output reader is inside reader.read() with nothing to return
ReaderBlocked ==
    /\ ReaderAt("read")
    /\ pty.output = <<>>
    /\ pty.child = "running"
    /\ ~pty.nonblocking

\* C33: disposing a process handle never waits for the output reader: the
\* drop can be taken whatever the reader is doing and is over in the step
\* that takes it, the reader not having moved.
C33_DropStep ==
    (HandleLive /\ ~HandleLive') =>
        /\ pc'[DispatchTask] = "idle"
        /\ pc'[WorkerTask] = pc[WorkerTask]
        /\ response' = [op |-> "drop"]

C33_DropAlwaysPossible ==
    (HandleLive /\ pc[DispatchTask] = "idle") =>
        ENABLED DropSessionProcess(DispatchTask)

C33_DropNeverWaits ==
    /\ [][C33_DropStep]_vars
    /\ []C33_DropAlwaysPossible

C33_Witness ==
    /\ ~HandleLive
    /\ response = [op |-> "drop"]
    /\ ReaderBlocked

\* C34: after the process handle has been disposed, the output reader
\* eventually terminates, also when it was blocked inside a terminal read
\* at the moment of disposal.
C34_ReaderTerminatesAfterDrop == (~HandleLive) ~> ReaderAt("reader_done")

\* the output entries of the log file, in file order
IsOutputFrag(x) == x.frag = "json" /\ x.direction = "output"
OutputFrags(file) == SelectSeq(file, IsOutputFrag)

DataOf(seq) == [i \in 1..Len(seq) |-> seq[i].data]

ReadLogged(r) == r.logged = "yes"
ReadHandled(r) == r.logged # "pending"

\* the loop has ended: nothing more is read or logged
C35_EndStep ==
    /\ (ReaderAt("read") /\ ReaderAt("reader_done")') =>
           UNCHANGED <<log_file, reads>>
    /\ ReaderAt("reader_done") =>
           /\ ReaderAt("reader_done")'
           /\ OutputFrags(log_file') = OutputFrags(log_file)
           /\ reads' = reads

\* a would-block logs nothing and leads back to the top of the loop
C35_WouldBlockStep ==
    /\ (ReaderAt("read") /\ ReaderAt("sleep")') => UNCHANGED <<log_file, reads>>
    /\ ReaderAt("sleep") =>
           /\ ReaderAt("sleep")' \/ ReaderAt("check")'
           /\ OutputFrags(log_file') = OutputFrags(log_file)
           /\ reads' = reads

\* C35 as stated: every non-empty read produces exactly one output entry
\* with exactly its bytes, in read order; a zero-length read or another
\* error ends the loop with no further entries; a would-block produces no
\* entry and is followed by a retry.
C35_RetryStep ==
    (ReaderAt("check") /\ op[WorkerTask].slept /\ ~ReaderAt("check")') =>
        ReaderAt("read")'

C35_EveryReadLogged ==
    /\ [](DataOf(OutputFrags(log_file))
             = DataOf(SelectSeq(reads, ReadHandled)))
    /\ [][C35_EndStep /\ C35_WouldBlockStep /\ C35_RetryStep]_vars

\* C35 amended: every non-empty read whose log append succeeds produces
\* exactly one output entry with exactly its bytes, in read order, and a
\* read whose append fails produces none; a zero-length read or another
\* error ends the loop with no further entries; a would-block produces no
\* entry and is followed by a retry unless the shutdown signal is found
\* first, which ends the loop.
C35_RetryOrShutdownStep ==
    (ReaderAt("check") /\ op[WorkerTask].slept /\ ~ReaderAt("check")') =>
        \/ ReaderAt("read")'
        \/ shutdown_rx = "signalled" /\ ReaderAt("reader_done")'

C35_SuccessfulReadsLogged ==
    /\ [](DataOf(OutputFrags(log_file))
             = DataOf(SelectSeq(reads, ReadLogged)))
    /\ [][C35_EndStep /\ C35_WouldBlockStep /\ C35_RetryOrShutdownStep]_vars

C35_Witness ==
    /\ ReaderAt("reader_done")
    /\ Len(reads) = 2
    /\ reads[1].logged = "failed" /\ reads[2].logged = "yes"
    /\ Len(OutputFrags(log_file)) = 1

\* the input entries of the log file, in file order
IsInputFrag(x) == x.frag = "json" /\ x.direction = "input"
InputFrags(file) == SelectSeq(file, IsInputFrag)

\* an input entry is appended only by a write_input that has written and
\* flushed its bytes, with those bytes; a write_input that finds no writer
\* fails, writes nothing and logs nothing
C36_EntryStep ==
    LET t == DispatchTask IN
    /\ InputFrags(log_file') # InputFrags(log_file) =>
           /\ pc[t] = "input_log"
           /\ pty_writes' = pty_writes /\ Len(pty_writes) > 0
           /\ pty_writes[Len(pty_writes)].data = op[t].data
           /\ InputFrags(log_file')
                 = Append(InputFrags(log_file), JsonFrag("input", op[t].data))
    /\ (pc[t] = "take_writer" /\ pty.writer_taken /\ pc'[t] # "take_writer") =>
           /\ pc'[t] = "idle"
           /\ response'.op = "write_input" /\ ~response'.ok
           /\ InputFrags(log_file') = InputFrags(log_file)
           /\ pty_writes' = pty_writes
    /\ (pc[t] = "pty_write" /\ pc'[t] = "idle") =>
           /\ ~response'.ok
           /\ InputFrags(log_file') = InputFrags(log_file)
           /\ pty_writes' = pty_writes

\* C36 as stated: write_input appends an input entry if and only if the
\* bytes were written to the terminal's input side and flushed, and the
\* entry is appended after the write; when the input side is unavailable
\* the call fails and no input entry is logged.
C36_LoggedIffWritten ==
    /\ [](pc[DispatchTask] = "idle" =>
              Len(InputFrags(log_file)) = Len(pty_writes))
    /\ [][C36_EntryStep]_vars

\* C36 amended: write_input appends an input entry only if the bytes were
\* written to the terminal's input side and flushed, and the entry is
\* appended after the write; a write that succeeded is logged unless the
\* log append fails, in which case the call fails with the input already
\* delivered; when the input side is unavailable the call fails and no
\* input entry is logged.
C36_LogFailedStep ==
    LET t == DispatchTask IN
    (pc[t] = "input_log" /\ pc'[t] # "input_log") =>
        \/ /\ pc'[t] = "input_log_newline"
           /\ Len(InputFrags(log_file')) = Len(InputFrags(log_file)) + 1
        \/ /\ pc'[t] = "idle" /\ ~response'.ok
           /\ InputFrags(log_file') = InputFrags(log_file)

C36_LoggedOnlyIfWritten ==
    /\ [](Len(InputFrags(log_file)) <= Len(pty_writes))
    /\ [](response.op = "write_input" /\ response.ok =>
              /\ Len(pty_writes) > 0
              /\ Len(InputFrags(log_file)) > 0)
    /\ [][C36_EntryStep /\ C36_LogFailedStep]_vars

C36_Witness ==
    /\ response.op = "write_input" /\ response.cause = "writer_taken"
    /\ Len(pty_writes) = 1
    /\ Len(InputFrags(log_file)) = 1

\* C37: every line of the session's log file is exactly one complete
\* serialized entry, also when the request path and the capture worker
\* append concurrently: the text of an entry that is followed by anything
\* in the file is followed by its own line end, never by the text of
\* another entry.
C37_LinesAreWholeEntries ==
    \A i \in 1..Len(log_file) :
        (log_file[i].frag = "json" /\ i < Len(log_file)) =>
            log_file[i + 1].frag = "newline"

\* C38: for a session with a live handle whose child is still running, a
\* write_input that follows an earlier successful one (written and logged)
\* is never rejected because the terminal's writer was already taken by
\* the earlier call.
C38_RejectStep ==
    LET t == DispatchTask IN
    (pc[t] = "take_writer" /\ pc'[t] = "idle"
        /\ HandleLive /\ pty.child = "running"
        /\ Len(pty_writes) > 0 /\ Len(InputFrags(log_file)) > 0) =>
        response'.cause # "writer_taken"

C38_SendInputRepeatable == [][C38_RejectStep]_vars

\* C39: once a Shutdown request has been handled, the daemon accepts and
\* processes no further client request: with the shutdown signal sent and
\* not yet observed, the accept loop takes no connection, whether the
\* connection carries a request or fails.
C39_AfterShutdownStep ==
    (shutdown_sent /\ phase = "ready") =>
        /\ \A t \in Tasks : ~(pc[t] = "idle" /\ pc'[t] # "idle")
        /\ response' = response \/ response'.op = "daemon_stopped"

C39_NoRequestAfterShutdown == [][C39_AfterShutdownStep]_vars

\* C40: a socket file left by a daemon that terminated without removing it
\* never prevents the next start: with no daemon serving or starting, a
\* start is not refused as "already running".
C40_StartStep ==
    \A d \in Tasks :
        (\A e \in Tasks : pc[e] = "idle") =>
            response' # StartOutcome(d, FALSE, "already_running")

C40_StaleSocketNoObstacle == [][C40_StartStep]_vars

====
